---- MODULE Spec2Model ----
(***************************************************************************)
(* Inventory concurrency of the e-commerce API: the Redis lock manager     *)
(* (DistributedLock), the stock column of Product, the cart reservations   *)
(* and the order service (createOrder, cancelOrder, cancelSubOrder), the   *)
(* seller's updateStock and addToCart.                                     *)
(*                                                                         *)
(* Each request handler is a process; one step is one awaited database or  *)
(* Redis call (consecutive reads that only feed one comparison are taken   *)
(* together).  The database is SQL Server under READ COMMITTED: a          *)
(* statement inside prisma.$transaction writes a product row under an      *)
(* exclusive row lock that lasts until commit or rollback, and a statement *)
(* that needs a locked row waits.  stock, cart and orders hold the         *)
(* committed rows; txDelta holds the uncommitted stock changes of the      *)
(* transaction owning the row lock; the order rows a transaction writes    *)
(* become visible at its commit.                                           *)
(***************************************************************************)
EXTENDS Integers, Sequences, FiniteSets, TLC

\* ---------------------------------------------------------------- universe
Products == {1, 2}
Users == {1, 2, 3}
\* The sessions of visitors who are not logged in; a cart belongs to a user
\* or to a session.
Sessions == {4}
Owners == Users \cup Sessions
Procs == {1, 2, 3}

\* Product.seller_id: every product of this universe has its own seller.
SellerOf(p) == p
Sellers == {SellerOf(p) : p \in Products}

MaxStock == 2
MaxQty == 2
MaxRequests == 2
MaxExpired == 1
MaxAdd == 1
MaxCartStock == 3
MaxOrderRequests == 3

NoProc == 0
NoToken == <<0, 0>>

VARIABLES
    stock,      \* Product.stock, committed value, per product
    rowOwner,   \* the process whose open transaction holds the product row lock
    txDelta,    \* per process: uncommitted change of stock made by its transaction
    cart,       \* per owner and product: the cart item row [qty, expired]; qty 0 = no row
    cartRow,    \* per owner: the Cart row: "none", "live", or "expired" (expires_at passed)
    lockStore,  \* Redis: key lock:product:<p>:stock -> token, NoToken when absent
    orders,     \* sequence of parent orders with their sub-orders and items
    procs,      \* per handler slot: the handler it runs, its position and its locals
    quota,      \* number of requests the run still takes
    hist        \* history kept for the properties, never read by a handler

vars == <<stock, rowOwner, txDelta, cart, cartRow, lockStore, orders, procs, quota, hist>>

ZeroQty == [p \in Products |-> 0]
NoExp == [p \in Products |-> FALSE]
NoItem == [qty |-> 0, expired |-> FALSE]

Idle ==
    [pc |-> "idle", op |-> "none", user |-> 0, oid |-> 0, seller |-> 0,
     pre |-> <<>>, todo |-> <<>>, snap |-> ZeroQty, snapExp |-> NoExp,
     rd |-> 0, had |-> 0, sess |-> 0, stk |-> ZeroQty, wr |-> ZeroQty,
     resp |-> [p \in Products |-> NoItem], arg |-> "none",
     key |-> 0, tok |-> NoToken, nacq |-> 0, err |-> "none",
     result |-> "none", inTx |-> FALSE, timedOut |-> FALSE, lostLock |-> FALSE]

\* A slot this specification does not use.
Off == [Idle EXCEPT !.pc = "off"]

\* ------------------------------------------------------------ pure helpers
RECURSIVE SumOver(_, _)
SumOver(S, f) ==
    IF S = {} THEN 0
    ELSE LET x == CHOOSE y \in S : TRUE IN f[x] + SumOver(S \ {x}, f)

\* All orderings of a finite set, as sequences without repetition.
Perms(S) ==
    {s \in [1..Cardinality(S) -> S] : \A i, j \in 1..Cardinality(S) : i # j => s[i] # s[j]}

RECURSIVE FilterSeller(_, _)
FilterSeller(s, sl) ==
    IF s = <<>> THEN <<>>
    ELSE IF SellerOf(Head(s)) = sl THEN <<Head(s)>> \o FilterSeller(Tail(s), sl)
    ELSE FilterSeller(Tail(s), sl)

RECURSIVE SellersInOrder(_)
SellersInOrder(s) ==
    IF s = <<>> THEN <<>>
    ELSE LET rest == SellersInOrder(Tail(s))
             sl == SellerOf(Head(s))
         IN <<sl>> \o SelectSeq(rest, LAMBDA x : x # sl)

RECURSIVE ConcatGroups(_, _)
ConcatGroups(sls, s) ==
    IF sls = <<>> THEN <<>>
    ELSE FilterSeller(s, Head(sls)) \o ConcatGroups(Tail(sls), s)

\* itemsBySeller followed by Object.entries: sellers in order of first
\* appearance, each with its items in cart order.
GroupBySeller(s) == ConcatGroups(SellersInOrder(s), s)

\* A handler slot takes the next request.
CanStart(self) == procs[self].pc \in {"idle", "done"} /\ quota > 0

\* The value a statement of process self sees in the stock column of p.
EffStock(self, p) == stock[p] + txDelta[self][p]

\* A row written by another open transaction makes a statement wait.
\* (fault: statements that never wait for a row lock)
RowAlwaysFree(self, p) == TRUE
RowFree(self, p) == rowOwner[p] \in {NoProc, self}

\* A cart item row written by another open transaction makes a statement
\* wait: wr[p] of a transaction is the quantity it has written, and not yet
\* committed, into the row of product p of the cart of its user.
CartRowFree(self, o, p) ==
    \A q \in Procs \ {self} : ~(procs[q].wr[p] # 0 /\ procs[q].user = o)

\* The same for a statement that reads every cart item row of product p.
CartFree(self, p) == \A o \in Owners : CartRowFree(self, o, p)

\* cartItem.aggregate: the active reservations of p in the carts of Us.
Reserved(Us, p) ==
    SumOver({v \in Us : ~cart[v][p].expired}, [v \in Owners |-> cart[v][p].qty])

\* ------------------------------------------------------------ lock manager
\* The token of the n-th acquire of a handler: unique among the live tokens.
TokenOf(self, n) == <<self, n>>

\* SET lockKey token PX ttl NX answers OK only when the key is absent.
\* (fault: SET without NX)
SetAlways(store, k) == TRUE
SetNX(store, k) == store[k] = NoToken

\* The Lua script of release: delete only when the key still holds the token.
\* (fault: release answering true whatever the script returned)
ReleaseTrue(store, k, t) == TRUE
ReleaseResult(store, k, t) == store[k] = t

\* What release leaves in the store.
\* (fault: a plain DEL, with no comparison of the token)
ReleaseAny(store, k, t) == [store EXCEPT ![k] = NoToken]
ReleaseStore(store, k, t) ==
    IF store[k] = t THEN [store EXCEPT ![k] = NoToken] ELSE store

\* ------------------------------------------------------------ transactions
\* Commit: the uncommitted stock changes become the committed rows.
CommitStock(self) == [p \in Products |-> stock[p] + txDelta[self][p]]

ReleaseRows(self) == [p \in Products |-> IF rowOwner[p] = self THEN NoProc ELSE rowOwner[p]]

ClearDelta(self) == [txDelta EXCEPT ![self] = ZeroQty]

\* updateMany({where: {id, stock: {gte: q}}, data: {stock: {decrement: q}}}):
\* the row is matched only when the stock covers the quantity.
\* (fault: the decrement without the condition on stock)
DecrementAlways(s, q) == TRUE
DecrementMatches(s, q) == s >= q

\* product.update({data: {stock: {increment: item.quantity}}}) of the cancels.
\* (fault: a cancel that gives nothing back)
RestoreNothing(q) == 0
RestoreQty(q) == q

\* The handler returns or throws: its locals are gone, its outcome is kept.
Finish(self, res) ==
    [Idle EXCEPT !.pc = "done", !.op = procs[self].op, !.user = procs[self].user,
                 !.result = res]

\* An error leaving prisma.$transaction rolls the transaction back: its
\* uncommitted stock changes are dropped and its row locks released.
\* (fault: the writes made outside a transaction: a throw leaves them)
NoRollback(self) ==
    /\ txDelta' = txDelta
    /\ rowOwner' = rowOwner
Rollback(self) ==
    /\ txDelta' = ClearDelta(self)
    /\ rowOwner' = ReleaseRows(self)

\* ------------------------------------------------------------------- orders
\* The rows createOrder inserts: the parent order, one sub-order per seller
\* of the cart and one order item per cart item, all PENDING.
NewOrder(u, qty) ==
    [user |-> u, status |-> "PENDING", pay |-> "PENDING",
     qty |-> qty,
     istatus |-> [p \in Products |-> IF qty[p] > 0 THEN "PENDING" ELSE "NONE"],
     sstatus |-> [s \in Sellers |->
                    IF \E p \in Products : SellerOf(p) = s /\ qty[p] > 0
                    THEN "PENDING" ELSE "NONE"],
     spay |-> [s \in Sellers |->
                    IF \E p \in Products : SellerOf(p) = s /\ qty[p] > 0
                    THEN "PENDING" ELSE "NONE"]]

ItemsOf(o) == {p \in Products : o.qty[p] > 0}
SubItems(o, s) == {p \in ItemsOf(o) : SellerOf(p) = s}
SubsOf(o) == {s \in Sellers : o.sstatus[s] # "NONE"}

\* ------------------------------------------------------------------ history
\* pre[i]: the committed stock the i-th order found at its commit; clean[i]:
\* no other committed write of a stock column since then.
HistOff == [on |-> FALSE, stock0 |-> ZeroQty, pre |-> <<>>, clean |-> <<>>]

\* A committed write of stock that is no createOrder.
HistTouch ==
    IF hist.on
    THEN [hist EXCEPT !.clean = [i \in 1..Len(hist.clean) |-> FALSE]]
    ELSE hist

\* createOrder commits: remember the stock it found.
HistOrder ==
    IF hist.on
    THEN [hist EXCEPT !.pre = Append(@, stock),
                      !.clean = Append([i \in 1..Len(hist.clean) |-> FALSE], TRUE)]
    ELSE hist

\* ---------------------------------------------------------------- withLock
\* acquire: one SET NX PX attempt that finds the key absent; withLock then
\* enters its body.
AcquireOk(self) ==
    LET me == procs[self] IN
    /\ me.pc = "acq"
    /\ SetNX(lockStore, me.key)
    /\ lockStore' = [lockStore EXCEPT ![me.key] = TokenOf(self, me.nacq + 1)]
    /\ procs' = [procs EXCEPT ![self] =
                    [me EXCEPT !.pc = "body", !.tok = TokenOf(self, me.nacq + 1),
                               !.nacq = me.nacq + 1, !.lostLock = FALSE]]
    /\ UNCHANGED <<stock, rowOwner, txDelta, cart, cartRow, orders, quota, hist>>

\* What withLock does with the null of an acquire that timed out
\* (lines 69-71): it throws, the body is not run.
\* (fault: the null of acquire not checked)
EnterAnyway(self) == [procs[self] EXCEPT !.pc = "body"]
AfterTimeout(self) == Finish(self, "LockTimeout")

\* acquire returns null: the last attempt found the key held and the
\* timeout has passed.  The throw of withLock leaves the handler, and its
\* transaction if it has one.
AcquireTimeout(self) ==
    LET me == procs[self]
        next == [AfterTimeout(self) EXCEPT !.timedOut = TRUE]
    IN
    /\ me.pc = "acq"
    /\ ~SetNX(lockStore, me.key)
    /\ IF next.pc = "done" THEN Rollback(self) ELSE UNCHANGED <<txDelta, rowOwner>>
    /\ procs' = [procs EXCEPT ![self] = next]
    /\ UNCHANGED <<stock, cart, cartRow, lockStore, orders, quota, hist>>

\* The key's TTL (10 s) runs out while the holder is still at work.
LockExpire(k) ==
    /\ lockStore[k] # NoToken
    /\ lockStore' = [lockStore EXCEPT ![k] = NoToken]
    /\ procs' = [procs EXCEPT ![lockStore[k][1]].lostLock = TRUE]
    /\ UNCHANGED <<stock, rowOwner, txDelta, cart, cartRow, orders, quota, hist>>

\* What the finally of withLock (lines 75-77) leaves in the store.
\* (fault: no finally, the lock left to its TTL)
FinallyKeep(self) == lockStore
FinallyStore(self) == ReleaseStore(lockStore, procs[self].key, procs[self].tok)

\* Where a handler goes when withLock has returned: the next item takes its
\* own lock (cancelOrder first writes the next sub-order), after the last
\* item a transaction goes on to its end, and addToCart returns.
AfterLock(self) ==
    LET me == procs[self]
        rest == Tail(me.todo)
    IN
    IF rest # <<>>
    THEN [me EXCEPT !.tok = NoToken, !.lostLock = FALSE, !.todo = rest, !.key = Head(rest),
                    !.pc = IF me.op = "cancelOrder" /\ me.seller = 0 THEN "ca_sub" ELSE "acq"]
    ELSE IF me.inTx
    THEN [me EXCEPT !.tok = NoToken, !.lostLock = FALSE, !.todo = rest, !.key = 0,
                    !.pc = "commit"]
    ELSE Finish(self, "ok")

\* The finally of withLock, then what the handler does next: a body that
\* threw leaves the handler by the throw (its transaction rolls back).
Release(self) ==
    LET me == procs[self] IN
    /\ me.pc = "rel"
    /\ lockStore' = FinallyStore(self)
    /\ IF me.err # "none"
       THEN /\ Rollback(self)
            /\ procs' = [procs EXCEPT ![self] = Finish(self, me.err)]
       ELSE /\ UNCHANGED <<txDelta, rowOwner>>
            /\ procs' = [procs EXCEPT ![self] = AfterLock(self)]
    /\ UNCHANGED <<stock, cart, cartRow, orders, quota, hist>>

\* The transaction ends under the handler (Prisma's transaction timeout, a
\* deadlock victim): the next statement on tx throws.
TxAbort(self) ==
    LET me == procs[self] IN
    /\ me.inTx
    /\ \/ /\ me.pc \in {"body", "co_upd", "mg_write"}
          /\ procs' = [procs EXCEPT ![self] = [me EXCEPT !.pc = "rel", !.err = "TxAborted"]]
          /\ UNCHANGED <<txDelta, rowOwner>>
       \/ /\ me.pc \in {"commit", "ca_sub", "cs_sub"}
          /\ Rollback(self)
          /\ procs' = [procs EXCEPT ![self] = Finish(self, "TxAborted")]
    /\ UNCHANGED <<stock, cart, cartRow, lockStore, orders, quota, hist>>

\* ------------------------------------------------------------- createOrder
\* Lines 127-156: load the cart with its items, check the address.
CreateOrderLoad(self) ==
    /\ CanStart(self)
    /\ quota' = quota - 1
    /\ \E u \in Users, addrOk \in BOOLEAN :
        LET items == {p \in Products : cart[u][p].qty > 0}
            me == [Idle EXCEPT !.op = "createOrder", !.user = u]
        IN
        /\ \A p \in items : CartRowFree(self, u, p)
        /\ \/ /\ items = {}
              /\ procs' = [procs EXCEPT ![self] =
                              [me EXCEPT !.pc = "done", !.result = "EmptyCart"]]
           \/ /\ items # {} /\ ~addrOk
              /\ procs' = [procs EXCEPT ![self] =
                              [me EXCEPT !.pc = "done", !.result = "AddressNotFound"]]
           \/ /\ items # {} /\ addrOk
              /\ \E s \in Perms(items) :
                   procs' = [procs EXCEPT ![self] =
                       [me EXCEPT !.pc = "co_pre",
                                  !.pre = s, !.todo = GroupBySeller(s),
                                  !.snap = [p \in Products |-> cart[u][p].qty],
                                  !.snapExp = [p \in Products |-> cart[u][p].expired]]]
    /\ UNCHANGED <<stock, rowOwner, txDelta, cart, cartRow, lockStore, orders, hist>>

\* Lines 163-198, one item: the reservation must not have run out, and the
\* stock less the active reservations of the other carts must cover it.
CreateOrderPreCheck(self) ==
    LET me == procs[self]
        p == Head(me.pre)
        availableStock == stock[p] - Reserved(Owners \ {me.user}, p)
        rest == Tail(me.pre)
    IN
    /\ me.pc = "co_pre"
    /\ RowFree(self, p)
    /\ CartFree(self, p)
    /\ procs' = [procs EXCEPT ![self] =
                    IF me.snapExp[p] THEN Finish(self, "ReservationExpired")
                    ELSE IF availableStock < me.snap[p] THEN Finish(self, "InsufficientStock")
                    ELSE IF rest # <<>> THEN [me EXCEPT !.pre = rest]
                    ELSE [me EXCEPT !.pc = "acq", !.pre = rest, !.inTx = TRUE,
                                    !.snapExp = NoExp, !.key = Head(me.todo)]]
    /\ UNCHANGED <<stock, rowOwner, txDelta, cart, cartRow, lockStore, orders, quota, hist>>

\* Lines 257-267: inside the lock, reload the product and compare.
CreateOrderRead(self) ==
    LET me == procs[self]
        p == me.key
    IN
    /\ me.pc = "body" /\ me.op = "createOrder"
    /\ RowFree(self, p)
    /\ procs' = [procs EXCEPT ![self] =
                    IF EffStock(self, p) < me.snap[p]
                    THEN [me EXCEPT !.pc = "rel", !.err = "InsufficientStock"]
                    ELSE [me EXCEPT !.pc = "co_upd"]]
    /\ UNCHANGED <<stock, rowOwner, txDelta, cart, cartRow, lockStore, orders, quota, hist>>

\* Lines 270-296: the conditional decrement, then the order item.
CreateOrderUpdate(self) ==
    LET me == procs[self]
        p == me.key
        q == me.snap[p]
    IN
    /\ me.pc = "co_upd"
    /\ RowFree(self, p)
    /\ IF DecrementMatches(EffStock(self, p), q)
       THEN /\ txDelta' = [txDelta EXCEPT ![self][p] = @ - q]
            /\ rowOwner' = [rowOwner EXCEPT ![p] = self]
            /\ procs' = [procs EXCEPT ![self] = [me EXCEPT !.pc = "rel"]]
       ELSE /\ UNCHANGED <<txDelta, rowOwner>>
            /\ procs' = [procs EXCEPT ![self] =
                            [me EXCEPT !.pc = "rel", !.err = "InsufficientStock"]]
    /\ UNCHANGED <<stock, cart, cartRow, lockStore, orders, quota, hist>>

\* Lines 305-310: clear the cart, return from the callback: commit.
CreateOrderCommit(self) ==
    LET me == procs[self] IN
    /\ me.pc = "commit" /\ me.op = "createOrder"
    /\ \A p \in Products : cart[me.user][p].qty > 0 => CartRowFree(self, me.user, p)
    /\ cart' = [cart EXCEPT ![me.user] = [p \in Products |-> NoItem]]
    /\ stock' = CommitStock(self)
    /\ rowOwner' = ReleaseRows(self)
    /\ txDelta' = ClearDelta(self)
    /\ orders' = Append(orders, NewOrder(me.user, me.snap))
    /\ hist' = HistOrder
    /\ procs' = [procs EXCEPT ![self] = Finish(self, "ok")]
    /\ UNCHANGED <<cartRow, lockStore, quota>>

\* ------------------------------------------------------------- updateStock
\* ProductService.updateStock: the seller sets the stock column, outside
\* any lock and any transaction; the request schema admits only stock >= 0.
\* The statement waits for a row another transaction has written.
UpdateStock(self) ==
    LET me == [Idle EXCEPT !.op = "updateStock", !.pc = "done"] IN
    /\ CanStart(self)
    /\ quota' = quota - 1
    /\ \E p \in Products, v \in 0..MaxStock, owner \in BOOLEAN :
        /\ rowOwner[p] = NoProc
        /\ IF owner
           THEN /\ stock' = [stock EXCEPT ![p] = v]
                /\ hist' = HistTouch
                /\ procs' = [procs EXCEPT ![self] = [me EXCEPT !.result = "ok"]]
           ELSE /\ UNCHANGED <<stock, hist>>
                /\ procs' = [procs EXCEPT ![self] = [me EXCEPT !.result = "Unauthorized"]]
    /\ UNCHANGED <<rowOwner, txDelta, cart, cartRow, lockStore, orders>>

\* ------------------------------------------------------------- environment
\* Time passes: the reservation of a cart item (15 minutes) runs out.  A
\* getCart call is shorter than that: a reservation it found run out, and
\* that was renewed since, does not run out again before the call returns.
Expire(u, p) ==
    /\ cart[u][p].qty > 0
    /\ ~cart[u][p].expired
    /\ ~\E q \in Procs : /\ procs[q].op = "getCart" /\ procs[q].pc # "done"
                         /\ procs[q].user = u /\ procs[q].snapExp[p]
    /\ Cardinality({x \in Owners \X Products : cart[x[1]][x[2]].expired}) < MaxExpired
    /\ cart' = [cart EXCEPT ![u][p].expired = TRUE]
    /\ UNCHANGED <<stock, rowOwner, txDelta, cartRow, lockStore, orders, procs, quota, hist>>

\* --------------------------------------------------------------- addToCart
\* CartService.addToCart: the whole body runs inside withLock on the
\* product's key.
AddToCartStart(self) ==
    /\ CanStart(self)
    /\ quota' = quota - 1
    /\ \E u \in Users, p \in Products, q \in 1..MaxAdd :
        procs' = [procs EXCEPT ![self] =
                    [Idle EXCEPT !.op = "addToCart", !.user = u, !.pc = "acq",
                                 !.key = p, !.todo = <<p>>,
                                 !.snap = [ZeroQty EXCEPT ![p] = q]]]
    /\ UNCHANGED <<stock, rowOwner, txDelta, cart, cartRow, lockStore, orders, hist>>

\* Lines 128-162: read the product, sum every active reservation of it (the
\* caller's own row included) and compare.
AddToCartCheck(self) ==
    LET me == procs[self]
        p == me.key
        availableStock == stock[p] - Reserved(Owners, p)
    IN
    /\ me.pc = "body" /\ me.op = "addToCart"
    /\ RowFree(self, p)
    /\ CartFree(self, p)
    /\ procs' = [procs EXCEPT ![self] =
                    IF availableStock < me.snap[p]
                    THEN [me EXCEPT !.pc = "rel", !.err = "InsufficientStock"]
                    ELSE [me EXCEPT !.pc = "ac_write", !.rd = stock[p]]]
    /\ UNCHANGED <<stock, rowOwner, txDelta, cart, cartRow, lockStore, orders, quota, hist>>

\* Lines 165-176: the cart of the owner is looked up, and there is none.
AddToCartFind(self) ==
    LET me == procs[self] IN
    /\ me.pc = "ac_write" /\ cartRow[me.user] = "none"
    /\ procs' = [procs EXCEPT ![self] = [me EXCEPT !.pc = "ac_chk"]]
    /\ UNCHANGED <<stock, rowOwner, txDelta, cart, cartRow, lockStore, orders, quota, hist>>

\* Lines 184-197: the "application-level uniqueness check" looks the cart
\* up once more and throws when it now exists.
AddToCartUnique(self) ==
    LET me == procs[self] IN
    /\ me.pc = "ac_chk"
    /\ procs' = [procs EXCEPT ![self] =
                    IF cartRow[me.user] # "none"
                    THEN [me EXCEPT !.pc = "rel", !.rd = 0, !.err = "CartAlreadyExists"]
                    ELSE [me EXCEPT !.pc = "ac_new"]]
    /\ UNCHANGED <<stock, rowOwner, txDelta, cart, cartRow, lockStore, orders, quota, hist>>

\* Lines 199-238: cart.create; when the unique index on the owner refuses
\* it, the cart that exists by now is read and adopted.
AddToCartCreate(self) ==
    LET me == procs[self] IN
    /\ me.pc = "ac_new"
    /\ cartRow' = [cartRow EXCEPT ![me.user] = IF @ = "none" THEN "live" ELSE @]
    /\ procs' = [procs EXCEPT ![self] = [me EXCEPT !.pc = "ac_item"]]
    /\ UNCHANGED <<stock, rowOwner, txDelta, cart, lockStore, orders, quota, hist>>

\* Lines 275-283: the quantity an existing row is given.
\* (fault: the requested quantity added to the row's quantity)
UpsertAdd(old, q) == old + q
UpsertQty(old, q) == q

\* Lines 166-293, with the cart found or just created: an item already in the cart
\* has its quantity replaced, after a second comparison that leaves the
\* caller's own row out; otherwise the item is created.  Either way the
\* reservation starts anew.
AddToCartWrite(self) ==
    LET me == procs[self]
        p == me.key
        u == me.user
        availableStock == me.rd - Reserved(Owners \ {u}, p)
        existing == cart[u][p].qty
    IN
    /\ \/ me.pc = "ac_write" /\ cartRow[u] # "none"
       \/ me.pc = "ac_item"
    /\ CartFree(self, p)
    /\ IF existing > 0 /\ availableStock < me.snap[p]
       THEN /\ procs' = [procs EXCEPT ![self] =
                            [me EXCEPT !.pc = "rel", !.rd = 0, !.err = "InsufficientStock"]]
            /\ UNCHANGED <<cart, cartRow>>
       ELSE /\ procs' = [procs EXCEPT ![self] =
                            [me EXCEPT !.pc = "ac_get", !.rd = 0, !.had = existing]]
            /\ cart' = [cart EXCEPT ![u][p] =
                            [qty |-> IF existing > 0 THEN UpsertQty(existing, me.snap[p])
                                     ELSE me.snap[p],
                             expired |-> FALSE]]
            /\ cartRow' = [cartRow EXCEPT ![u] = IF @ = "none" THEN "live" ELSE @]
    /\ UNCHANGED <<stock, rowOwner, txDelta, lockStore, orders, quota, hist>>

\* Lines 607-613 of getCart: every cart whose expires_at has passed is
\* deleted, and its items with it (ON DELETE CASCADE).
PurgedRows == [o \in Owners |-> IF cartRow[o] = "expired" THEN "none" ELSE cartRow[o]]
PurgedCarts ==
    [o \in Owners |-> IF cartRow[o] = "expired" THEN [p \in Products |-> NoItem] ELSE cart[o]]

\* What getCart leaves of the carts when it reads the cart of u: the carts
\* that ran out are deleted, then the items of u whose product has no stock
\* and the items of u whose reservation has run out.
GetCartSweep(u) ==
    [PurgedCarts EXCEPT ![u] = [p \in Products |->
        IF @[p].qty > 0 /\ (stock[p] = 0 \/ @[p].expired) THEN NoItem ELSE @[p]]]

\* Lines 296, 359 and 392: the body ends with getCart, which reads the
\* products of the cart and sweeps it.
AddToCartGet(self) ==
    LET me == procs[self] IN
    /\ me.pc = "ac_get"
    /\ \A p \in Products :
          cart[me.user][p].qty > 0 => RowFree(self, p) /\ CartRowFree(self, me.user, p)
    /\ cart' = GetCartSweep(me.user)
    /\ cartRow' = PurgedRows
    /\ procs' = [procs EXCEPT ![self] = [me EXCEPT !.pc = "rel"]]
    /\ UNCHANGED <<stock, rowOwner, txDelta, lockStore, orders, quota, hist>>
\* addToCart of a visitor who is not logged in: the cart is the session's.
AddToCartAnon(self) ==
    /\ CanStart(self)
    /\ quota' = quota - 1
    /\ \E s \in Sessions, p \in Products, q \in 1..MaxQty :
        procs' = [procs EXCEPT ![self] =
                    [Idle EXCEPT !.op = "addToCart", !.user = s, !.pc = "acq",
                                 !.key = p, !.todo = <<p>>,
                                 !.snap = [ZeroQty EXCEPT ![p] = q]]]
    /\ UNCHANGED <<stock, rowOwner, txDelta, cart, cartRow, lockStore, orders, hist>>

\* ---------------------------------------------------------- updateCartItem
\* CartService.updateCartItem(owner, product, quantity): the whole body runs
\* inside withLock on the product's key; the schema admits quantity >= 0.
UpdateCartItemStart(self) ==
    /\ CanStart(self)
    /\ quota' = quota - 1
    /\ \E o \in Owners, p \in Products, q \in 0..MaxQty :
        procs' = [procs EXCEPT ![self] =
                    [Idle EXCEPT !.op = "updateCartItem", !.user = o, !.pc = "acq",
                                 !.key = p, !.todo = <<p>>,
                                 !.snap = [ZeroQty EXCEPT ![p] = q]]]
    /\ UNCHANGED <<stock, rowOwner, txDelta, cart, cartRow, lockStore, orders, hist>>

\* Lines 318-379: find the cart and the item with its product; quantity 0
\* goes on to the delete; otherwise the stock less the active reservations
\* of the other rows must cover the quantity.
UpdateCartItemCheck(self) ==
    LET me == procs[self]
        p == me.key
        o == me.user
        availableForUpdate == stock[p] - Reserved(Owners \ {o}, p)
    IN
    /\ me.pc = "body" /\ me.op = "updateCartItem"
    /\ RowFree(self, p)
    /\ CartFree(self, p)
    /\ procs' = [procs EXCEPT ![self] =
                    IF cartRow[o] = "none"
                    THEN [me EXCEPT !.pc = "rel", !.err = "CartNotFound"]
                    ELSE IF cart[o][p].qty = 0
                    THEN [me EXCEPT !.pc = "rel", !.err = "ProductNotInCart"]
                    ELSE IF me.snap[p] = 0
                    THEN [me EXCEPT !.pc = "uc_write", !.had = cart[o][p].qty]
                    ELSE IF availableForUpdate < me.snap[p]
                    THEN [me EXCEPT !.pc = "rel", !.err = "InsufficientStock"]
                    ELSE [me EXCEPT !.pc = "uc_write", !.had = cart[o][p].qty]]
    /\ UNCHANGED <<stock, rowOwner, txDelta, cart, cartRow, lockStore, orders, quota, hist>>

\* Lines 353-390: cartItem.delete for quantity 0, cartItem.update with a
\* new reservation otherwise; either throws when the row is gone.
UpdateCartItemWrite(self) ==
    LET me == procs[self]
        p == me.key
        o == me.user
    IN
    /\ me.pc = "uc_write"
    /\ CartRowFree(self, o, p)
    /\ IF cart[o][p].qty = 0
       THEN /\ procs' = [procs EXCEPT ![self] =
                            [me EXCEPT !.pc = "rel", !.err = "RecordNotFound"]]
            /\ UNCHANGED cart
       ELSE /\ procs' = [procs EXCEPT ![self] = [me EXCEPT !.pc = "ac_get"]]
            /\ cart' = [cart EXCEPT ![o][p] =
                            IF me.snap[p] = 0 THEN NoItem
                            ELSE [qty |-> me.snap[p], expired |-> FALSE]]
    /\ UNCHANGED <<stock, rowOwner, txDelta, cartRow, lockStore, orders, quota, hist>>

\* ------------------------------------------------------ mergeAnonymousCart
\* Lines 458-516: load the session's cart with its items and their
\* products; with no such cart, or an empty one, the call is getCart.
\* Otherwise the user's cart is found or created and the transaction opens.
MergeLoad(self) ==
    /\ CanStart(self)
    /\ quota' = quota - 1
    /\ \E u \in Users, s \in Sessions :
        LET items == {p \in Products : cart[s][p].qty > 0}
            me == [Idle EXCEPT !.op = "mergeAnonymousCart", !.user = u, !.sess = s]
        IN
        /\ \A p \in items : RowFree(self, p)
        /\ IF cartRow[s] = "none" \/ items = {}
           THEN /\ procs' = [procs EXCEPT ![self] = [me EXCEPT !.pc = "mg_get"]]
                /\ UNCHANGED cartRow
           ELSE /\ \E order \in Perms(items) :
                    procs' = [procs EXCEPT ![self] =
                        [me EXCEPT !.pc = "acq", !.inTx = TRUE,
                                   !.todo = order, !.key = Head(order),
                                   !.snap = [p \in Products |-> cart[s][p].qty],
                                   !.stk = [p \in Products |->
                                               IF p \in items THEN stock[p] ELSE 0]]]
                /\ cartRow' = [cartRow EXCEPT ![u] = IF @ = "none" THEN "live" ELSE @]
    /\ UNCHANGED <<stock, rowOwner, txDelta, cart, lockStore, orders, hist>>

\* Lines 522-548, inside the lock of one anonymous item: the user's row of
\* the product, and the stock the load found less the active reservations of
\* every row but that one (the session's own row is among them).
MergeRead(self) ==
    LET me == procs[self]
        p == me.key
        totalReserved == Reserved(Owners \ {me.user}, p)
    IN
    /\ me.pc = "body" /\ me.op = "mergeAnonymousCart"
    /\ CartFree(self, p)
    /\ procs' = [procs EXCEPT ![self] =
                    [me EXCEPT !.pc = "mg_write", !.had = cart[me.user][p].qty,
                               !.rd = me.stk[p] - totalReserved]]
    /\ UNCHANGED <<stock, rowOwner, txDelta, cart, cartRow, lockStore, orders, quota, hist>>

\* Lines 550-564: the quantity the user's existing row is given.
MergeQty(existing, a) == existing + a

\* Lines 550-580: when the available stock covers the anonymous quantity the
\* user's row is updated to the sum, or created; otherwise the item is left
\* out without an error.  The write stays uncommitted until the commit.
MergeWrite(self) ==
    LET me == procs[self]
        p == me.key
        a == me.snap[p]
        row == cart[me.user][p].qty
    IN
    /\ me.pc = "mg_write"
    /\ CartRowFree(self, me.user, p)
    /\ procs' = [procs EXCEPT ![self] =
                    IF me.rd < a THEN [me EXCEPT !.pc = "rel", !.rd = 0]
                    ELSE IF me.had > 0 /\ row = 0
                    THEN [me EXCEPT !.pc = "rel", !.rd = 0, !.err = "RecordNotFound"]
                    ELSE IF me.had = 0 /\ row > 0
                    THEN [me EXCEPT !.pc = "rel", !.rd = 0, !.err = "UniqueConstraint"]
                    ELSE [me EXCEPT !.pc = "rel", !.rd = 0,
                                    !.wr[p] = IF me.had > 0 THEN MergeQty(me.had, a) ELSE a]]
    /\ UNCHANGED <<stock, rowOwner, txDelta, cart, cartRow, lockStore, orders, quota, hist>>

\* Lines 587-590: delete the session's cart (its items go with it), return
\* from the callback: commit.
MergeCommit(self) ==
    LET me == procs[self] IN
    /\ me.pc = "commit" /\ me.op = "mergeAnonymousCart"
    /\ cart' = [cart EXCEPT
                  ![me.user] = [p \in Products |->
                                   IF me.wr[p] > 0 THEN [qty |-> me.wr[p], expired |-> FALSE]
                                   ELSE @[p]],
                  ![me.sess] = [p \in Products |-> NoItem]]
    /\ cartRow' = [cartRow EXCEPT ![me.sess] = "none"]
    /\ procs' = [procs EXCEPT ![self] =
                    [me EXCEPT !.pc = "mg_get", !.inTx = FALSE, !.wr = ZeroQty]]
    /\ UNCHANGED <<stock, rowOwner, txDelta, lockStore, orders, quota, hist>>

\* Lines 477 and 593: the call ends with getCart of the user.
MergeGet(self) ==
    LET me == procs[self] IN
    /\ me.pc = "mg_get"
    /\ \A p \in Products :
          cart[me.user][p].qty > 0 => RowFree(self, p) /\ CartRowFree(self, me.user, p)
    /\ cart' = GetCartSweep(me.user)
    /\ cartRow' = PurgedRows
    /\ procs' = [procs EXCEPT ![self] = Finish(self, "ok")]
    /\ UNCHANGED <<stock, rowOwner, txDelta, lockStore, orders, quota, hist>>

\* ------------------------------------------------------------------ getCart
\* CartService.getCart as a request of its own, statement by statement.
\* Lines 604-668: now is taken, the carts that ran out are deleted, the
\* cart is loaded with its items and their products.
GetCartLoad(self) ==
    /\ CanStart(self)
    /\ quota' = quota - 1
    /\ \E o \in Owners :
        LET me == [Idle EXCEPT !.op = "getCart", !.user = o]
            items == {p \in Products : PurgedCarts[o][p].qty > 0}
        IN
        /\ \A p \in items : RowFree(self, p) /\ CartRowFree(self, o, p)
        /\ procs' = [procs EXCEPT ![self] =
                        IF PurgedRows[o] = "none" THEN [me EXCEPT !.pc = "done", !.result = "ok"]
                        ELSE [me EXCEPT !.pc = "gc_zero",
                                        !.snap = [p \in Products |-> PurgedCarts[o][p].qty],
                                        !.stk = [p \in Products |->
                                                    IF p \in items THEN stock[p] ELSE 0],
                                        !.snapExp = [p \in Products |->
                                                        PurgedCarts[o][p].expired]]]
    /\ cart' = PurgedCarts
    /\ cartRow' = PurgedRows
    /\ UNCHANGED <<stock, rowOwner, txDelta, lockStore, orders, hist>>

\* Lines 670-682: the items the load found with a product out of stock are
\* deleted.
\* (fault: no item is taken for out of stock)
OutOfStockNever(qty, stk) == FALSE
OutOfStock(qty, stk) == qty > 0 /\ stk = 0

GetCartZero(self) ==
    LET me == procs[self]
        o == me.user
        gone == {p \in Products : OutOfStock(me.snap[p], me.stk[p])}
    IN
    /\ me.pc = "gc_zero"
    /\ \A p \in gone : CartRowFree(self, o, p)
    /\ cart' = [cart EXCEPT ![o] = [p \in Products |-> IF p \in gone THEN NoItem ELSE @[p]]]
    /\ procs' = [procs EXCEPT ![self] = [me EXCEPT !.pc = "gc_exp"]]
    /\ UNCHANGED <<stock, rowOwner, txDelta, cartRow, lockStore, orders, quota, hist>>

\* Lines 685-692: which rows the deleteMany on reservation_expires_at < now
\* matches: those that had run out at now and were not renewed since.
\* (fault: a sweep that matches no row)
SweepNothing(snapExp, item) == FALSE
SweepMatches(snapExp, item) == item.qty > 0 /\ snapExp /\ item.expired

GetCartExpired(self) ==
    LET me == procs[self]
        o == me.user
    IN
    /\ me.pc = "gc_exp"
    /\ \A p \in Products : cart[o][p].qty > 0 => CartRowFree(self, o, p)
    /\ cart' = [cart EXCEPT ![o] = [p \in Products |->
                    IF SweepMatches(me.snapExp[p], @[p]) THEN NoItem ELSE @[p]]]
    /\ procs' = [procs EXCEPT ![self] = [me EXCEPT !.pc = "gc_ref"]]
    /\ UNCHANGED <<stock, rowOwner, txDelta, cartRow, lockStore, orders, quota, hist>>

\* Lines 695-769: the cart is read again and returned; the outcome kept is
\* the response, with the reservations that had run out at now.
GetCartRefresh(self) ==
    LET me == procs[self] IN
    /\ me.pc = "gc_ref"
    /\ \A p \in Products :
          cart[me.user][p].qty > 0 => RowFree(self, p) /\ CartRowFree(self, me.user, p)
    /\ procs' = [procs EXCEPT ![self] =
                    [Finish(self, "ok") EXCEPT !.resp = cart[me.user],
                                               !.snapExp = me.snapExp]]
    /\ UNCHANGED <<stock, rowOwner, txDelta, cart, cartRow, lockStore, orders, quota, hist>>

\* Time passes: the expires_at of a session's cart (24 hours) is reached.
CartExpire(s) ==
    /\ cartRow[s] = "live"
    /\ cartRow' = [cartRow EXCEPT ![s] = "expired"]
    /\ UNCHANGED <<stock, rowOwner, txDelta, cart, lockStore, orders, procs, quota, hist>>

\* ------------------------------------------------------------------ cancels
\* The row of sub-order s of order oid is written, and so locked until the
\* end of its transaction, by q: cancelSubOrder writes it first of all,
\* cancelOrder writes the sub-orders one after the other, each before it
\* restores the stock of its items.
SubLockedBy(q, oid, s) ==
    LET it == procs[q] IN
    /\ it.inTx /\ it.oid = oid
    /\ \/ it.op = "cancelSubOrder" /\ it.seller = s /\ it.pc # "cs_sub"
       \/ /\ it.op = "cancelOrder" /\ it.seller = 0
          /\ orders[oid].sstatus[s] # "NONE"
          /\ ~\E i \in DOMAIN it.todo :
                SellerOf(it.todo[i]) = s /\ (i > 1 \/ it.pc = "ca_sub")

SubFree(self, oid, s) == \A q \in Procs \ {self} : ~SubLockedBy(q, oid, s)

\* OrderService.cancelOrder, lines 401-431: find the order of the user by
\* its id (the id of a parent order, or of one of its sub-orders: tgt), and
\* accept only a PENDING one.  The check is made before the transaction.
CancelOrderLoad(self) ==
    /\ CanStart(self)
    /\ quota' = quota - 1
    /\ \E oid \in 1..Len(orders), u \in Users, tgt \in {0} \cup Sellers :
        LET o == orders[oid]
            found == o.user = u /\ (IF tgt = 0 THEN TRUE ELSE o.sstatus[tgt] # "NONE")
            status == IF tgt = 0 THEN o.status ELSE o.sstatus[tgt]
            items == IF tgt = 0 THEN ItemsOf(o) ELSE SubItems(o, tgt)
            me == [Idle EXCEPT !.op = "cancelOrder", !.user = u]
        IN
        /\ tgt # 0 => SubFree(self, oid, tgt)
        /\ \/ /\ ~found
              /\ procs' = [procs EXCEPT ![self] =
                            [me EXCEPT !.pc = "done", !.result = "OrderNotFound"]]
           \/ /\ found /\ status # "PENDING"
              /\ procs' = [procs EXCEPT ![self] =
                            [me EXCEPT !.pc = "done", !.result = "CannotCancel"]]
           \/ /\ found /\ status = "PENDING"
              /\ \E s \in Perms(items) :
                    procs' = [procs EXCEPT ![self] =
                        [me EXCEPT !.pc = IF tgt = 0 THEN "ca_sub" ELSE "acq",
                                   !.oid = oid, !.seller = tgt, !.inTx = TRUE,
                                   !.todo = s, !.key = Head(s), !.snap = o.qty]]
    /\ UNCHANGED <<stock, rowOwner, txDelta, cart, cartRow, lockStore, orders, hist>>

\* Lines 437-453: the next sub-order and its items are set to CANCELLED.
CancelOrderSub(self) ==
    LET me == procs[self] IN
    /\ me.pc = "ca_sub"
    /\ SubFree(self, me.oid, SellerOf(Head(me.todo)))
    /\ procs' = [procs EXCEPT ![self] = [me EXCEPT !.pc = "acq"]]
    /\ UNCHANGED <<stock, rowOwner, txDelta, cart, cartRow, lockStore, orders, quota, hist>>

\* The body of withLock in cancelOrder (lines 462-469, 491-498) and in
\* cancelSubOrder (lines 592-599): the stock column takes the item's
\* quantity back.
CancelRestore(self) ==
    LET me == procs[self]
        p == me.key
    IN
    /\ me.pc = "body" /\ me.op \in {"cancelOrder", "cancelSubOrder"}
    /\ RowFree(self, p)
    /\ txDelta' = [txDelta EXCEPT ![self][p] = @ + RestoreQty(me.snap[p])]
    /\ rowOwner' = [rowOwner EXCEPT ![p] = self]
    /\ procs' = [procs EXCEPT ![self] = [me EXCEPT !.pc = "rel"]]
    /\ UNCHANGED <<stock, cart, cartRow, lockStore, orders, quota, hist>>

\* The order rows cancelOrder has written when it commits.
\* (fault: a cancel that writes no order row)
CancelledNothing(o, tgt) == o
CancelledOrder(o, tgt) ==
    IF tgt = 0
    THEN [o EXCEPT !.status = "CANCELLED", !.pay = "REFUNDED",
                   !.sstatus = [s \in Sellers |-> IF @[s] # "NONE" THEN "CANCELLED" ELSE @[s]],
                   !.spay = [s \in Sellers |-> IF @[s] # "NONE" THEN "REFUNDED" ELSE @[s]],
                   !.istatus = [p \in Products |-> IF @[p] # "NONE" THEN "CANCELLED" ELSE @[p]]]
    ELSE [o EXCEPT !.sstatus[tgt] = "CANCELLED", !.spay[tgt] = "REFUNDED",
                   !.istatus = [p \in Products |->
                                  IF p \in SubItems(o, tgt) THEN "CANCELLED" ELSE @[p]]]

\* Lines 511-529: the last writes of the order rows, then the commit.
CancelOrderCommit(self) ==
    LET me == procs[self] IN
    /\ me.pc = "commit" /\ me.op = "cancelOrder"
    /\ me.seller # 0 => SubFree(self, me.oid, me.seller)
    /\ orders' = [orders EXCEPT ![me.oid] = CancelledOrder(@, me.seller)]
    /\ stock' = CommitStock(self)
    /\ rowOwner' = ReleaseRows(self)
    /\ txDelta' = ClearDelta(self)
    /\ hist' = HistTouch
    /\ procs' = [procs EXCEPT ![self] = Finish(self, "ok")]
    /\ UNCHANGED <<cart, cartRow, lockStore, quota>>

\* OrderService.cancelSubOrder, lines 540-564: find the sub-order of the
\* seller, accept a PENDING or CONFIRMED one.
CancelSubOrderLoad(self) ==
    /\ CanStart(self)
    /\ quota' = quota - 1
    /\ \E oid \in 1..Len(orders), s \in Sellers, mine \in BOOLEAN :
        LET o == orders[oid]
            found == mine /\ o.sstatus[s] # "NONE"
            me == [Idle EXCEPT !.op = "cancelSubOrder"]
        IN
        /\ SubFree(self, oid, s)
        /\ \/ /\ ~found
              /\ procs' = [procs EXCEPT ![self] =
                            [me EXCEPT !.pc = "done", !.result = "SubOrderNotFound"]]
           \/ /\ found /\ o.sstatus[s] \notin {"PENDING", "CONFIRMED"}
              /\ procs' = [procs EXCEPT ![self] =
                            [me EXCEPT !.pc = "done", !.result = "CannotCancel"]]
           \/ /\ found /\ o.sstatus[s] \in {"PENDING", "CONFIRMED"}
              /\ \E t \in Perms(SubItems(o, s)) :
                    procs' = [procs EXCEPT ![self] =
                        [me EXCEPT !.pc = "cs_sub", !.oid = oid, !.seller = s,
                                   !.inTx = TRUE, !.todo = t, !.key = Head(t),
                                   !.snap = o.qty]]
    /\ UNCHANGED <<stock, rowOwner, txDelta, cart, cartRow, lockStore, orders, hist>>

\* Lines 569-583: the sub-order and its items are set to CANCELLED.
CancelSubOrderSub(self) ==
    LET me == procs[self] IN
    /\ me.pc = "cs_sub"
    /\ SubFree(self, me.oid, me.seller)
    /\ procs' = [procs EXCEPT ![self] = [me EXCEPT !.pc = "acq"]]
    /\ UNCHANGED <<stock, rowOwner, txDelta, cart, cartRow, lockStore, orders, quota, hist>>

\* The order rows cancelSubOrder has written when it commits: the parent
\* follows when every other sub-order reads CANCELLED.
\* (fault: the parent never follows)
CancelledSubOnly(o, s) ==
    [o EXCEPT !.sstatus[s] = "CANCELLED", !.spay[s] = "REFUNDED",
              !.istatus = [p \in Products |-> IF p \in SubItems(o, s) THEN "CANCELLED" ELSE @[p]]]
CancelledSubOrder(o, s) ==
    LET allCancelled == \A s2 \in SubsOf(o) : s2 = s \/ o.sstatus[s2] = "CANCELLED"
        sub == [o EXCEPT !.sstatus[s] = "CANCELLED", !.spay[s] = "REFUNDED",
                         !.istatus = [p \in Products |->
                                        IF p \in SubItems(o, s) THEN "CANCELLED" ELSE @[p]]]
    IN
    IF allCancelled THEN [sub EXCEPT !.status = "CANCELLED", !.pay = "REFUNDED"] ELSE sub

\* Lines 613-636: read the sub-orders of the parent, write the parent when
\* all of them are cancelled, commit.
CancelSubOrderCommit(self) ==
    LET me == procs[self]
        o == orders[me.oid]
    IN
    /\ me.pc = "commit" /\ me.op = "cancelSubOrder"
    /\ \A s2 \in SubsOf(o) \ {me.seller} : SubFree(self, me.oid, s2)
    /\ orders' = [orders EXCEPT ![me.oid] = CancelledSubOrder(@, me.seller)]
    /\ stock' = CommitStock(self)
    /\ rowOwner' = ReleaseRows(self)
    /\ txDelta' = ClearDelta(self)
    /\ hist' = HistTouch
    /\ procs' = [procs EXCEPT ![self] = Finish(self, "ok")]
    /\ UNCHANGED <<cart, cartRow, lockStore, quota>>


\* The statement process self is at waits for a row that the open
\* transaction of q has written: a sub-order row or a product row.
Waits(self, q) ==
    LET me == procs[self] IN
    /\ me.inTx /\ q # self
    /\ \/ me.pc = "ca_sub" /\ SubLockedBy(q, me.oid, SellerOf(Head(me.todo)))
       \/ me.pc = "cs_sub" /\ SubLockedBy(q, me.oid, me.seller)
       \/ me.pc \in {"body", "co_upd"} /\ rowOwner[me.key] = q
       \/ /\ me.pc = "commit" /\ me.op = "cancelOrder" /\ me.seller # 0
          /\ SubLockedBy(q, me.oid, me.seller)
       \/ /\ me.pc = "commit" /\ me.op = "cancelSubOrder"
          /\ \E s \in SubsOf(orders[me.oid]) \ {me.seller} : SubLockedBy(q, me.oid, s)

\* (fault: no deadlock detection)
NoVictim(self) == FALSE

\* Two transactions wait for each other's rows: the database ends one of
\* them, whose next statement throws out of prisma.$transaction.
DeadlockVictim(self) ==
    /\ \E q \in Procs : Waits(self, q) /\ Waits(q, self)
    /\ TxAbort(self)
\* --------------------------------------------------- updateOrderItemStatus
\* enum OrderStatus.
OrderStatuses == {"PENDING", "CONFIRMED", "SHIPPED", "DELIVERED", "CANCELLED"}

\* validTransitions (lines 729-737) of the item's status.
ValidTransition(cur, new) ==
    \/ cur = "PENDING" /\ new \in {"CONFIRMED", "CANCELLED"}
    \/ cur = "CONFIRMED" /\ new = "SHIPPED"
    \/ cur = "SHIPPED" /\ new = "DELIVERED"

\* OrderService.updateOrderItemStatus(seller, item, status), lines 701-737:
\* find the item of the seller, validate the transition of its status.  The
\* check is made before the transaction.
UpdateItemLoad(self) ==
    /\ CanStart(self)
    /\ quota' = quota - 1
    /\ \E oid \in 1..Len(orders), p \in Products, st \in OrderStatuses, mine \in BOOLEAN :
        LET o == orders[oid]
            found == mine /\ o.istatus[p] # "NONE"
            me == [Idle EXCEPT !.op = "updateOrderItemStatus"]
        IN
        /\ SubFree(self, oid, SellerOf(p))
        /\ procs' = [procs EXCEPT ![self] =
                        IF ~found THEN [me EXCEPT !.pc = "done", !.result = "OrderItemNotFound"]
                        ELSE IF ~ValidTransition(o.istatus[p], st)
                        THEN [me EXCEPT !.pc = "done", !.result = "InvalidTransition"]
                        ELSE [me EXCEPT !.pc = "ui_tx", !.oid = oid, !.key = p, !.arg = st,
                                        !.seller = SellerOf(p)]]
    /\ UNCHANGED <<stock, rowOwner, txDelta, cart, cartRow, lockStore, orders, hist>>

UpdatedItemOnly(o, p, st) == [o EXCEPT !.istatus[p] = st]

\* The rows the transaction of lines 740-777 writes: the item, its
\* sub-order and the parent order all take the new status.
UpdatedItem(o, p, st) ==
    [o EXCEPT !.istatus[p] = st, !.sstatus[SellerOf(p)] = st, !.status = st]

UpdateItemWrite(self) ==
    LET me == procs[self] IN
    /\ me.pc = "ui_tx"
    /\ SubFree(self, me.oid, me.seller)
    /\ orders' = [orders EXCEPT ![me.oid] = UpdatedItem(@, me.key, me.arg)]
    /\ procs' = [procs EXCEPT ![self] = Finish(self, "ok")]
    /\ UNCHANGED <<stock, rowOwner, txDelta, cart, cartRow, lockStore, quota, hist>>

\* ---------------------------------------------------------- processPayment
\* The payment_status of the order row a payment call names: the parent
\* (tgt = 0) or the sub-order of seller tgt.
PayOf(o, tgt) == IF tgt = 0 THEN o.pay ELSE o.spay[tgt]

\* payment.controller.ts lines 15-26 and PaymentService.processPayment
\* lines 43-57: the order must exist and be the user's; an order already
\* PAID is answered at once.
PaymentLoad(self) ==
    /\ CanStart(self)
    /\ quota' = quota - 1
    /\ \E oid \in 1..Len(orders), u \in Users, tgt \in {0} \cup Sellers :
        LET o == orders[oid]
            found == o.user = u /\ (IF tgt = 0 THEN TRUE ELSE o.sstatus[tgt] # "NONE")
            me == [Idle EXCEPT !.op = "processPayment", !.user = u]
        IN
        /\ tgt # 0 => SubFree(self, oid, tgt)
        /\ procs' = [procs EXCEPT ![self] =
                        IF ~found THEN [me EXCEPT !.pc = "done", !.result = "OrderNotFound"]
                        ELSE IF PayOf(o, tgt) = "PAID"
                        THEN [me EXCEPT !.pc = "done", !.result = "AlreadyPaid"]
                        ELSE [me EXCEPT !.pc = "pp_proc", !.oid = oid, !.seller = tgt]]
    /\ UNCHANGED <<stock, rowOwner, txDelta, cart, cartRow, lockStore, orders, hist>>

\* Lines 60-63: payment_status PROCESSING.
PaymentProcessing(self) ==
    LET me == procs[self] IN
    /\ me.pc = "pp_proc"
    /\ me.seller # 0 => SubFree(self, me.oid, me.seller)
    /\ orders' = [orders EXCEPT ![me.oid] =
                    IF me.seller = 0 THEN [@ EXCEPT !.pay = "PROCESSING"]
                    ELSE [@ EXCEPT !.spay[me.seller] = "PROCESSING"]]
    /\ procs' = [procs EXCEPT ![self] = [me EXCEPT !.pc = "pp_gw"]]
    /\ UNCHANGED <<stock, rowOwner, txDelta, cart, cartRow, lockStore, quota, hist>>

\* The rows the transaction of lines 79-112 writes: the order PAID and
\* CONFIRMED; for a parent every sub-order likewise and every item of every
\* sub-order CONFIRMED, otherwise the items of the order itself.
\* (fault: the items left as they are)
PaidOrdersOnly(o, tgt) ==
    IF tgt = 0
    THEN [o EXCEPT !.status = "CONFIRMED", !.pay = "PAID",
                   !.sstatus = [s \in Sellers |-> IF @[s] # "NONE" THEN "CONFIRMED" ELSE @[s]],
                   !.spay = [s \in Sellers |-> IF @[s] # "NONE" THEN "PAID" ELSE @[s]]]
    ELSE [o EXCEPT !.sstatus[tgt] = "CONFIRMED", !.spay[tgt] = "PAID"]
PaidOrder(o, tgt) ==
    IF tgt = 0
    THEN [o EXCEPT !.status = "CONFIRMED", !.pay = "PAID",
                   !.sstatus = [s \in Sellers |-> IF @[s] # "NONE" THEN "CONFIRMED" ELSE @[s]],
                   !.spay = [s \in Sellers |-> IF @[s] # "NONE" THEN "PAID" ELSE @[s]],
                   !.istatus = [p \in Products |-> IF @[p] # "NONE" THEN "CONFIRMED" ELSE @[p]]]
    ELSE [o EXCEPT !.sstatus[tgt] = "CONFIRMED", !.spay[tgt] = "PAID",
                   !.istatus = [p \in Products |->
                                  IF p \in SubItems(o, tgt) THEN "CONFIRMED" ELSE @[p]]]

\* Lines 65-112: the gateway accepts the payment; the transaction commits.
PaymentSuccess(self) ==
    LET me == procs[self]
        o == orders[me.oid]
    IN
    /\ me.pc = "pp_gw"
    /\ \A s \in SubsOf(o) : (me.seller \in {0, s}) => SubFree(self, me.oid, s)
    /\ orders' = [orders EXCEPT ![me.oid] = PaidOrder(@, me.seller)]
    /\ procs' = [procs EXCEPT ![self] = Finish(self, "PAID")]
    /\ UNCHANGED <<stock, rowOwner, txDelta, cart, cartRow, lockStore, quota, hist>>

\* The row the failure branch (lines 121-126) writes.
\* (fault: a failed payment that also cancels the order)
FailedAndCancelled(o, tgt) ==
    IF tgt = 0 THEN [o EXCEPT !.pay = "FAILED", !.status = "CANCELLED"]
    ELSE [o EXCEPT !.spay[tgt] = "FAILED", !.sstatus[tgt] = "CANCELLED"]
FailedOrder(o, tgt) ==
    IF tgt = 0 THEN [o EXCEPT !.pay = "FAILED"] ELSE [o EXCEPT !.spay[tgt] = "FAILED"]

\* Lines 121-134: the gateway refuses the payment.
PaymentFailure(self) ==
    LET me == procs[self] IN
    /\ me.pc = "pp_gw"
    /\ me.seller # 0 => SubFree(self, me.oid, me.seller)
    /\ orders' = [orders EXCEPT ![me.oid] = FailedOrder(@, me.seller)]
    /\ procs' = [procs EXCEPT ![self] = Finish(self, "FAILED")]
    /\ UNCHANGED <<stock, rowOwner, txDelta, cart, cartRow, lockStore, quota, hist>>

\* ----------------------------------------------------------- refundPayment
\* payment.controller.ts lines 72-83 and PaymentService.refundPayment lines
\* 139-146: only a PAID order is refunded.
RefundLoad(self) ==
    /\ CanStart(self)
    /\ quota' = quota - 1
    /\ \E oid \in 1..Len(orders), u \in Users, tgt \in {0} \cup Sellers :
        LET o == orders[oid]
            found == o.user = u /\ (IF tgt = 0 THEN TRUE ELSE o.sstatus[tgt] # "NONE")
            me == [Idle EXCEPT !.op = "refundPayment", !.user = u]
        IN
        /\ tgt # 0 => SubFree(self, oid, tgt)
        /\ procs' = [procs EXCEPT ![self] =
                        IF ~found THEN [me EXCEPT !.pc = "done", !.result = "OrderNotFound"]
                        ELSE IF PayOf(o, tgt) # "PAID"
                        THEN [me EXCEPT !.pc = "done", !.result = "CannotRefund"]
                        ELSE [me EXCEPT !.pc = "rf_upd", !.oid = oid, !.seller = tgt]]
    /\ UNCHANGED <<stock, rowOwner, txDelta, cart, cartRow, lockStore, orders, hist>>

\* The row lines 149-155 write: the order REFUNDED and CANCELLED.
RefundedOrder(o, tgt) ==
    IF tgt = 0 THEN [o EXCEPT !.pay = "REFUNDED", !.status = "CANCELLED"]
    ELSE [o EXCEPT !.spay[tgt] = "REFUNDED", !.sstatus[tgt] = "CANCELLED"]

RefundWrite(self) ==
    LET me == procs[self] IN
    /\ me.pc = "rf_upd"
    /\ me.seller # 0 => SubFree(self, me.oid, me.seller)
    /\ orders' = [orders EXCEPT ![me.oid] = RefundedOrder(@, me.seller)]
    /\ procs' = [procs EXCEPT ![self] = Finish(self, "ok")]
    /\ UNCHANGED <<stock, rowOwner, txDelta, cart, cartRow, lockStore, quota, hist>>

\* ------------------------------------------------------------ lock clients
\* A caller of DistributedLock.acquire and DistributedLock.release
\* themselves: it acquires a key, releases it, and releases it once more.
LockClientStart(self) ==
    /\ CanStart(self)
    /\ quota' = quota - 1
    /\ \E k \in Products :
        procs' = [procs EXCEPT ![self] =
                    [Idle EXCEPT !.op = "lockClient", !.pc = "lc_acq", !.key = k]]
    /\ UNCHANGED <<stock, rowOwner, txDelta, cart, cartRow, lockStore, orders, hist>>

\* acquire returns the token it has stored.
LockClientAcquire(self) ==
    LET me == procs[self] IN
    /\ me.pc = "lc_acq"
    /\ SetNX(lockStore, me.key)
    /\ lockStore' = [lockStore EXCEPT ![me.key] = TokenOf(self, me.nacq + 1)]
    /\ procs' = [procs EXCEPT ![self] =
                    [me EXCEPT !.pc = "lc_hold", !.tok = TokenOf(self, me.nacq + 1),
                               !.nacq = me.nacq + 1]]
    /\ UNCHANGED <<stock, rowOwner, txDelta, cart, cartRow, orders, quota, hist>>

\* acquire returns null after its timeout.
LockClientGiveUp(self) ==
    LET me == procs[self] IN
    /\ me.pc = "lc_acq"
    /\ ~SetNX(lockStore, me.key)
    /\ procs' = [procs EXCEPT ![self] = Finish(self, "null")]
    /\ UNCHANGED <<stock, rowOwner, txDelta, cart, cartRow, lockStore, orders, quota, hist>>

\* release(key, token), the first call and the second: the script runs, the
\* caller keeps what it returned.
LockClientRelease(self) ==
    LET me == procs[self]
        res == IF ReleaseResult(lockStore, me.key, me.tok) THEN "true" ELSE "false"
    IN
    /\ me.pc \in {"lc_hold", "lc_rel2"}
    /\ lockStore' = ReleaseStore(lockStore, me.key, me.tok)
    /\ procs' = [procs EXCEPT ![self] =
                    IF me.pc = "lc_hold"
                    THEN [me EXCEPT !.pc = "lc_rel2", !.result = res, !.lostLock = FALSE]
                    ELSE Finish(self, res)]
    /\ UNCHANGED <<stock, rowOwner, txDelta, cart, cartRow, orders, quota, hist>>

\* --------------------------------------------------------------------- Init
\* The products hold any stock and the carts of two users hold what earlier
\* addToCart calls left in them (the seller may have changed the stock
\* since), every reservation still running.  slots: the handler slots that
\* serve requests; n: the number of requests of the run.
InitAt(top, slots, n, carts, on) ==
    /\ stock \in [Products -> 0..top]
    /\ rowOwner = [p \in Products |-> NoProc]
    /\ txDelta = [q \in Procs |-> ZeroQty]
    /\ cart \in carts
    /\ cartRow = [o \in Owners |->
                    IF o \in Users \/ \E p \in Products : cart[o][p].qty > 0
                    THEN "live" ELSE "none"]
    /\ lockStore = [p \in Products |-> NoToken]
    /\ orders = <<>>
    /\ procs = [q \in Procs |-> IF q \in slots THEN Idle ELSE Off]
    /\ quota = n
    /\ hist = [HistOff EXCEPT !.on = on, !.stock0 = IF on THEN stock ELSE ZeroQty]

InitWith(slots, n, carts, on) == InitAt(MaxStock, slots, n, carts, on)

\* The carts of users 1 and 2 hold any quantities, the cart of user 3 and
\* the cart of the session are empty.
TwoCarts ==
    {c \in [Owners -> [Products -> {[qty |-> n, expired |-> FALSE] : n \in 0..MaxQty}]] :
        \A o \in Owners \ {1, 2} : c[o] = [p \in Products |-> NoItem]}

\* The cart of every user holds one unit of product 1 and nothing else.
OneEach ==
    {[o \in Owners |-> [p \in Products |->
        IF p = 1 /\ o \in Users THEN [qty |-> 1, expired |-> FALSE] ELSE NoItem]]}

\* The same with at most MaxAdd units of a product in a cart.
SmallCarts == {c \in TwoCarts : \A u \in Owners, p \in Products : c[u][p].qty <= MaxAdd}

\* Every product has the same stock, up to MaxCartStock; user 1 and the
\* session hold any quantities of product 1 that the stock covers, every
\* reservation still running.
SessionCarts ==
    {c \in [Owners -> [Products -> {[qty |-> n, expired |-> FALSE] : n \in 0..MaxQty}]] :
        /\ \A o \in Users \ {1} : c[o] = [p \in Products |-> NoItem]
        /\ \A o \in Owners : c[o][2] = NoItem}

InitCarts(slots, n) ==
    /\ InitAt(MaxCartStock, slots, n, SessionCarts, FALSE)
    /\ \A p \in Products : stock[p] = stock[1] /\ Reserved(Owners, p) <= stock[p]

Init == InitWith({1, 2}, MaxRequests, SmallCarts, FALSE)

WithLockSteps ==
    \/ \E self \in Procs : AcquireOk(self)
    \/ \E self \in Procs : AcquireTimeout(self)
    \/ \E self \in Procs : Release(self)
    \/ \E k \in Products : LockExpire(k)

CreateOrderSteps ==
    \/ \E self \in Procs : CreateOrderLoad(self)
    \/ \E self \in Procs : CreateOrderPreCheck(self)
    \/ \E self \in Procs : CreateOrderRead(self)
    \/ \E self \in Procs : CreateOrderUpdate(self)
    \/ \E self \in Procs : CreateOrderCommit(self)
    \/ \E self \in Procs : TxAbort(self)

CancelOrderSteps ==
    \/ \E self \in Procs : CancelOrderLoad(self)
    \/ \E self \in Procs : CancelOrderSub(self)
    \/ \E self \in Procs : CancelRestore(self)
    \/ \E self \in Procs : CancelOrderCommit(self)

Next ==
    \/ WithLockSteps
    \/ CreateOrderSteps
    \/ CancelOrderSteps
    \/ \E self \in Procs : CancelSubOrderLoad(self)
    \/ \E self \in Procs : CancelSubOrderSub(self)
    \/ \E self \in Procs : CancelSubOrderCommit(self)
    \/ \E self \in Procs : AddToCartStart(self)
    \/ \E self \in Procs : AddToCartCheck(self)
    \/ \E self \in Procs : AddToCartWrite(self)
    \/ \E self \in Procs : AddToCartGet(self)
    \/ \E self \in Procs : UpdateStock(self)
    \/ \E u \in Users, p \in Products : Expire(u, p)

Spec == Init /\ [][Next]_vars

\* Checkout alone: concurrent createOrder calls, no other writer of stock.
InitCheckout == InitWith({1, 2}, MaxRequests, TwoCarts, TRUE)

NextCheckout ==
    \/ WithLockSteps
    \/ CreateOrderSteps
    \/ \E u \in Users, p \in Products : Expire(u, p)

SpecCheckout == InitCheckout /\ [][NextCheckout]_vars

\* Scenario A: three carts with one unit each, three concurrent createOrder.
InitScenario == InitWith(Procs, Cardinality(Procs), OneEach, TRUE)

SpecScenario == InitScenario /\ [][NextCheckout]_vars

\* createOrder and cancelOrder.
InitRoundTrip == InitWith({1, 2}, MaxRequests + 1, TwoCarts, TRUE)

NextRoundTrip ==
    \/ WithLockSteps
    \/ CreateOrderSteps
    \/ CancelOrderSteps

SpecRoundTrip == InitRoundTrip /\ [][NextRoundTrip]_vars

\* The lock manager alone, under callers of acquire and release.
InitLock == InitWith(Procs, MaxRequests + 2, OneEach, FALSE)

NextLock ==
    \/ \E self \in Procs : LockClientStart(self)
    \/ \E self \in Procs : LockClientAcquire(self)
    \/ \E self \in Procs : LockClientGiveUp(self)
    \/ \E self \in Procs : LockClientRelease(self)
    \/ \E k \in Products : LockExpire(k)

SpecLock == InitLock /\ [][NextLock]_vars


\* The cart service: addToCart and updateCartItem.
InitCart == InitCarts({1, 2}, MaxRequests)

CartSteps ==
    \/ \E self \in Procs : AddToCartStart(self)
    \/ \E self \in Procs : AddToCartAnon(self)
    \/ \E self \in Procs : AddToCartCheck(self)
    \/ \E self \in Procs : AddToCartFind(self)
    \/ \E self \in Procs : AddToCartUnique(self)
    \/ \E self \in Procs : AddToCartCreate(self)
    \/ \E self \in Procs : AddToCartWrite(self)
    \/ \E self \in Procs : AddToCartGet(self)
    \/ \E o \in Owners, p \in Products : Expire(o, p)

NextCart ==
    \/ WithLockSteps
    \/ CartSteps
    \/ \E self \in Procs : UpdateCartItemStart(self)
    \/ \E self \in Procs : UpdateCartItemCheck(self)
    \/ \E self \in Procs : UpdateCartItemWrite(self)

SpecCart == InitCart /\ [][NextCart]_vars

\* The cart service: addToCart and mergeAnonymousCart.
InitMerge == InitCarts({1, 2}, MaxRequests)

NextMerge ==
    \/ WithLockSteps
    \/ CartSteps
    \/ \E self \in Procs : MergeLoad(self)
    \/ \E self \in Procs : MergeRead(self)
    \/ \E self \in Procs : MergeWrite(self)
    \/ \E self \in Procs : MergeCommit(self)
    \/ \E self \in Procs : MergeGet(self)
    \/ \E self \in Procs : TxAbort(self)

SpecMerge == InitMerge /\ [][NextMerge]_vars

\* getCart under concurrent addToCart calls.
InitGetCart == InitCarts({1, 2}, MaxRequests)

NextGetCart ==
    \/ WithLockSteps
    \/ CartSteps
    \/ \E self \in Procs : GetCartLoad(self)
    \/ \E self \in Procs : GetCartZero(self)
    \/ \E self \in Procs : GetCartExpired(self)
    \/ \E self \in Procs : GetCartRefresh(self)
    \/ \E s \in Sessions : CartExpire(s)

SpecGetCart == InitGetCart /\ [][NextGetCart]_vars

\* An order of user 1 as createOrder left it, or with its item of product 1
\* confirmed and shipped by the seller since.
Shipped(o, p) == UpdatedItem(UpdatedItem(o, p, "CONFIRMED"), p, "SHIPPED")

PlacedOrders ==
    LET new == {NewOrder(1, qty) : qty \in [Products -> 0..MaxQty] \ {ZeroQty}}
    IN new \cup {Shipped(o, 1) : o \in {x \in new : x.qty[1] > 0}}

\* The life of one order: user 1 has checked out a cart, which took the
\* whole stock or left one unit of every product, and the order is
\* cancelled, paid, refunded and moved on by its sellers.
InitOrders ==
    /\ stock \in {[p \in Products |-> n] : n \in 0..1}
    /\ rowOwner = [p \in Products |-> NoProc]
    /\ txDelta = [q \in Procs |-> ZeroQty]
    /\ cart = [o \in Owners |-> [p \in Products |-> NoItem]]
    /\ cartRow = [o \in Owners |-> IF o \in Users THEN "live" ELSE "none"]
    /\ lockStore = [p \in Products |-> NoToken]
    /\ orders \in {<<o>> : o \in PlacedOrders}
    /\ procs = [q \in Procs |-> IF q \in {1, 2} THEN Idle ELSE Off]
    /\ quota = MaxOrderRequests
    /\ hist = HistOff

NextOrders ==
    \/ WithLockSteps
    \/ CancelOrderSteps
    \/ \E self \in Procs : CancelSubOrderLoad(self)
    \/ \E self \in Procs : CancelSubOrderSub(self)
    \/ \E self \in Procs : CancelSubOrderCommit(self)
    \/ \E self \in Procs : TxAbort(self)
    \/ \E self \in Procs : UpdateItemLoad(self)
    \/ \E self \in Procs : UpdateItemWrite(self)
    \/ \E self \in Procs : PaymentLoad(self)
    \/ \E self \in Procs : PaymentProcessing(self)
    \/ \E self \in Procs : PaymentSuccess(self)
    \/ \E self \in Procs : PaymentFailure(self)
    \/ \E self \in Procs : RefundLoad(self)
    \/ \E self \in Procs : RefundWrite(self)

SpecOrders == InitOrders /\ [][NextOrders]_vars

\* getCart beside the seller's updateStock and addToCart: user 1 and the
\* session hold at most one unit of product 1, the stock is 0 or 1.
SweepCarts ==
    {c \in SessionCarts : \A o \in Owners, p \in Products : c[o][p].qty <= MaxAdd}

InitSweep ==
    /\ InitAt(MaxAdd, {1, 2}, MaxOrderRequests, SweepCarts, FALSE)
    /\ \A p \in Products : stock[p] = stock[1]
    /\ \A u \in Users : cart[u] = [p \in Products |-> NoItem]

NextSweep ==
    \/ NextGetCart
    \/ \E self \in Procs : UpdateStock(self)

SpecSweep == InitSweep /\ [][NextSweep]_vars

\* Concurrent cancelOrder calls on one order that createOrder has just left
\* PENDING, and no other request.
InitCancelRace ==
    /\ stock \in {[p \in Products |-> n] : n \in 0..1}
    /\ rowOwner = [p \in Products |-> NoProc]
    /\ txDelta = [q \in Procs |-> ZeroQty]
    /\ cart = [o \in Owners |-> [p \in Products |-> NoItem]]
    /\ cartRow = [o \in Owners |-> IF o \in Users THEN "live" ELSE "none"]
    /\ lockStore = [p \in Products |-> NoToken]
    /\ orders \in {<<NewOrder(1, qty)>> : qty \in [Products -> 0..MaxQty] \ {ZeroQty}}
    /\ procs = [q \in Procs |-> Idle]
    /\ quota = Cardinality(Procs)
    /\ hist = HistOff

NextCancelRace ==
    \/ WithLockSteps
    \/ CancelOrderSteps
    \/ \E self \in Procs : DeadlockVictim(self)

SpecCancelRace == InitCancelRace /\ [][NextCancelRace]_vars

\* Concurrent checkouts of carts that hold both products, which the two
\* calls may visit in opposite orders.  Every step a call has to take is
\* taken in the end (the event loop runs every continuation, acquire
\* returns at its timeout at the latest, the database's deadlock monitor
\* runs); the expiry of a lock and the timeout of a transaction may happen
\* but need not.
InitOpposite == InitWith({1, 2}, MaxRequests, SmallCarts, FALSE)

CheckoutStep(self) ==
    \/ CreateOrderPreCheck(self)
    \/ AcquireOk(self)
    \/ AcquireTimeout(self)
    \/ CreateOrderRead(self)
    \/ CreateOrderUpdate(self)
    \/ Release(self)
    \/ CreateOrderCommit(self)
    \/ DeadlockVictim(self)

NextOpposite ==
    \/ WithLockSteps
    \/ CreateOrderSteps
    \/ \E self \in Procs : DeadlockVictim(self)

SpecOpposite ==
    /\ InitOpposite /\ [][NextOpposite]_vars
    /\ \A self \in {1, 2} : WF_vars(CheckoutStep(self))

\* The cancellations of one order that createOrder has just left PENDING:
\* cancelOrder, cancelSubOrder and the sellers' updateOrderItemStatus.  The
\* stock the order left is remembered, nothing else writes stock.
InitRestoreAt(slots) ==
    /\ stock \in {[p \in Products |-> n] : n \in 0..1}
    /\ rowOwner = [p \in Products |-> NoProc]
    /\ txDelta = [q \in Procs |-> ZeroQty]
    /\ cart = [o \in Owners |-> [p \in Products |-> NoItem]]
    /\ cartRow = [o \in Owners |-> IF o \in Users THEN "live" ELSE "none"]
    /\ lockStore = [p \in Products |-> NoToken]
    /\ orders \in {<<NewOrder(1, qty)>> : qty \in [Products -> 0..MaxQty] \ {ZeroQty}}
    /\ procs = [q \in Procs |-> IF q \in slots THEN Idle ELSE Off]
    /\ quota = MaxRequests
    /\ hist = [HistOff EXCEPT !.on = TRUE, !.stock0 = stock]

NextRestore ==
    \/ WithLockSteps
    \/ CancelOrderSteps
    \/ \E self \in Procs : CancelSubOrderLoad(self)
    \/ \E self \in Procs : CancelSubOrderSub(self)
    \/ \E self \in Procs : CancelSubOrderCommit(self)
    \/ \E self \in Procs : UpdateItemLoad(self)
    \/ \E self \in Procs : UpdateItemWrite(self)
    \/ \E self \in Procs : DeadlockVictim(self)

SpecRestore == InitRestoreAt({1, 2}) /\ [][NextRestore]_vars

\* The same calls one after the other: each returns before the next is
\* made, so that no call waits for a lock or a row.
NextSequence ==
    \/ \E self \in Procs : AcquireOk(self)
    \/ \E self \in Procs : Release(self)
    \/ \E k \in Products : LockExpire(k)
    \/ CancelOrderSteps
    \/ \E self \in Procs : CancelSubOrderLoad(self)
    \/ \E self \in Procs : CancelSubOrderSub(self)
    \/ \E self \in Procs : CancelSubOrderCommit(self)
    \/ \E self \in Procs : UpdateItemLoad(self)
    \/ \E self \in Procs : UpdateItemWrite(self)

SpecSequence == InitRestoreAt({1}) /\ [][NextSequence]_vars

\* The payment of an order beside its cancellation: processPayment,
\* cancelOrder and cancelSubOrder on one order that createOrder has just
\* left PENDING.
NextPayRace ==
    \/ WithLockSteps
    \/ CancelOrderSteps
    \/ \E self \in Procs : CancelSubOrderLoad(self)
    \/ \E self \in Procs : CancelSubOrderSub(self)
    \/ \E self \in Procs : CancelSubOrderCommit(self)
    \/ \E self \in Procs : PaymentLoad(self)
    \/ \E self \in Procs : PaymentProcessing(self)
    \/ \E self \in Procs : PaymentSuccess(self)
    \/ \E self \in Procs : PaymentFailure(self)
    \/ \E self \in Procs : DeadlockVictim(self)

SpecPayRace == InitRestoreAt({1, 2}) /\ [][NextPayRace]_vars
\* ------------------------------------------------------------------- claims
InBody(q) ==
    procs[q].pc \in {"body", "co_upd", "ac_write", "ac_chk", "ac_new", "ac_item", "ac_get"}

InWithLock(q) == InBody(q) \/ procs[q].pc = "rel"

\* The units of p in the orders createOrder has committed.
Sold(p) == SumOver(DOMAIN orders, [i \in DOMAIN orders |-> orders[i].qty[p]])

Failed(q, op) ==
    /\ procs[q].pc = "done" /\ procs[q].op = op
    /\ procs[q].result \notin {"ok", "none"}

\* C1: in every reachable state the stock of every product is >= 0, and so
\* is the value an open transaction has written to the row and not yet
\* committed.
C1_StockNonNegative ==
    \A p \in Products :
        /\ stock[p] >= 0
        /\ \A q \in Procs : rowOwner[p] = q => EffStock(q, p) >= 0

\* An order took the last units of a product and another createOrder was
\* refused for lack of stock.
C1_Witness ==
    /\ \E i \in DOMAIN orders : \E p \in ItemsOf(orders[i]) : stock[p] = 0
    /\ \E q \in Procs : procs[q].op = "createOrder" /\ procs[q].result = "InsufficientStock"

\* The run of Scenario A and of its like: every slot has served one
\* createOrder, each for another cart, and each call either succeeded or
\* was refused for lack of stock.
ScenarioRun ==
    /\ \A q \in Procs :
        /\ procs[q].pc = "done" /\ procs[q].op = "createOrder"
        /\ procs[q].result \in {"ok", "InsufficientStock"}
    /\ \A q, r \in Procs : q # r => procs[q].user # procs[r].user

\* C2: n concurrent createOrder calls from distinct carts, each for one unit
\* of a product whose stock s is less than n: exactly s calls succeed, the
\* others fail for lack of stock, and the final stock is 0.
C2_ExactlyStockSucceed ==
    LET s == hist.stock0[1]
        n == Cardinality(Procs)
    IN
    (ScenarioRun /\ n > s) =>
        /\ Cardinality({q \in Procs : procs[q].result = "ok"}) = s
        /\ stock[1] = 0

\* Stock 2, three carts with one unit each: all three calls were refused and
\* the stock is still 2.
C2_Witness ==
    /\ ScenarioRun
    /\ hist.stock0[1] = 2 /\ stock[1] = 2
    /\ \A q \in Procs : procs[q].result = "InsufficientStock"

\* C3: with createOrder the only writer of stock, the stock of every product
\* is its initial value less the units in the orders that succeeded, these
\* never exceed the initial stock, and every call that has ended has either
\* succeeded or failed with an error.
C3_Conservation ==
    /\ \A p \in Products :
        /\ stock[p] = hist.stock0[p] - Sold(p)
        /\ Sold(p) <= hist.stock0[p]
    /\ \A q \in Procs : procs[q].pc = "done" => procs[q].result # "none"

\* Two calls competed for a product: the orders took all of its stock and a
\* call was refused.
C3_Witness ==
    /\ \E p \in Products : Sold(p) > 0 /\ Sold(p) = hist.stock0[p]
    /\ \E q \in Procs : procs[q].op = "createOrder" /\ procs[q].result = "InsufficientStock"
    /\ \A q \in Procs : procs[q].pc \in {"done", "off"}

\* C4: when cancelOrder of a parent order commits and no other write of
\* stock was committed since the order was created, the stock of every
\* product of the order is what it was before createOrder.
C4_RoundTrip ==
    [][\A q \in Procs :
        (/\ procs[q].op = "cancelOrder" /\ procs[q].pc = "commit"
         /\ procs[q].seller = 0
         /\ procs'[q].pc = "done" /\ procs'[q].result = "ok"
         /\ hist.clean[procs[q].oid])
        => \A p \in ItemsOf(orders[procs[q].oid]) :
                stock'[p] = hist.pre[procs[q].oid][p]]_vars

\* An order of two units was created and cancelled, and the stock is back.
C4_Witness ==
    /\ Len(orders) = 1
    /\ orders[1].status = "CANCELLED"
    /\ \E p \in Products : orders[1].qty[p] = MaxQty
    /\ stock = hist.pre[1]

\* C5: the step by which a createOrder call fails, whatever the reason,
\* leaves the orders, the stock and the carts as they were, and nothing of
\* its transaction remains.
C5_AllOrNothing ==
    [][\A q \in Procs :
        (/\ procs'[q] # procs[q]
         /\ Failed(q, "createOrder")')
        => /\ orders' = orders
           /\ stock' = stock
           /\ cart' = cart
           /\ txDelta'[q] = ZeroQty
           /\ \A p \in Products : rowOwner'[p] # q]_vars

\* An item has failed inside the transaction after an earlier item of the
\* same order was decremented.
C5_Witness ==
    \E q \in Procs :
        /\ procs[q].op = "createOrder" /\ procs[q].pc = "rel"
        /\ procs[q].err = "InsufficientStock"
        /\ \E p \in Products : txDelta[q][p] < 0

\* C6 as stated: at no time are two callers in the body of withLock for the
\* same key, however long the body lasts.
C6_MutualExclusion ==
    \A a, b \in Procs :
        (a # b /\ InBody(a) /\ InBody(b)) => procs[a].key # procs[b].key

\* C6: two callers are in the body of withLock for the same key only when
\* the lock of one of them has run out by its TTL while it was in the body;
\* a caller whose lock has not run out is alone in the body.
C6_ExclusionWithinTTL ==
    \A a, b \in Procs :
        (a # b /\ InBody(a) /\ InBody(b) /\ procs[a].key = procs[b].key)
        => (procs[a].lostLock \/ procs[b].lostLock)

\* A caller is in the body with its lock, and another waits for the same key.
C6_Witness ==
    \E a, b \in Procs :
        /\ InBody(a) /\ ~procs[a].lostLock
        /\ lockStore[procs[a].key] = procs[a].tok
        /\ procs[b].pc = "acq" /\ procs[b].key = procs[a].key

\* C7: release deletes the key exactly when the store holds the caller's
\* token for it and then returns true; otherwise (the lock has run out, or
\* has run out and belongs to another caller) it leaves the store alone and
\* returns false.
C7_ReleaseOnlyOwn ==
    [][\A q \in Procs :
        (procs[q].pc \in {"lc_hold", "lc_rel2"} /\ procs'[q].pc # procs[q].pc)
        => IF lockStore[procs[q].key] = procs[q].tok
           THEN /\ lockStore' = [lockStore EXCEPT ![procs[q].key] = NoToken]
                /\ procs'[q].result = "true"
           ELSE /\ lockStore' = lockStore
                /\ procs'[q].result = "false"]_vars

\* A holder whose lock ran out has released: it got false, and the key
\* still holds the token of the caller that acquired it since.
C7_Witness ==
    \E q \in Procs :
        /\ procs[q].pc = "lc_rel2" /\ procs[q].result = "false"
        /\ lockStore[procs[q].key] \notin {NoToken, procs[q].tok}

\* C8: the second release with the same key and token changes nothing in
\* the lock store and returns false.
C8_ReleaseIdempotent ==
    [][\A q \in Procs :
        (procs[q].pc = "lc_rel2" /\ procs'[q].pc = "done")
        => /\ lockStore' = lockStore
           /\ procs'[q].result = "false"]_vars

\* A second release has returned false while another caller held the key.
C8_Witness ==
    \E q \in Procs :
        /\ procs[q].pc = "done" /\ procs[q].op = "lockClient"
        /\ procs[q].result = "false"
        /\ \E k \in Products : lockStore[k] # NoToken

\* C9: the key holds a caller's token only while that caller is inside
\* withLock for that key: once withLock has finished, by return or by throw,
\* the key does not hold its token, so nothing of this caller stands in the
\* way of the next acquire.
C9_ReleasedOnExit ==
    \A k \in Products :
        lockStore[k] # NoToken =>
            LET q == lockStore[k][1] IN
            /\ InWithLock(q)
            /\ procs[q].key = k
            /\ procs[q].tok = lockStore[k]

\* The body of addToCart threw, withLock has finished, and no key is held.
C9_Witness ==
    /\ \E q \in Procs :
        /\ procs[q].pc = "done" /\ procs[q].op = "addToCart"
        /\ procs[q].result = "InsufficientStock"
    /\ \A k \in Products : lockStore[k] = NoToken

\* C10: the step by which an acquire times out ends the operation with the
\* lock-timeout error; it writes no cart, order or stock, and what its
\* transaction had written is dropped.
C10_TimeoutFails ==
    [][\A q \in Procs :
        (procs'[q].timedOut /\ ~procs[q].timedOut)
        => /\ procs'[q].pc = "done"
           /\ procs'[q].result = "LockTimeout"
           /\ stock' = stock /\ cart' = cart /\ orders' = orders
           /\ txDelta'[q] = ZeroQty
           /\ \A p \in Products : rowOwner'[p] # q]_vars

\* An operation has ended by the lock timeout.
C10_Witness ==
    \E q \in Procs :
        /\ procs[q].timedOut
        /\ procs[q].pc = "done" /\ procs[q].result = "LockTimeout"


\* ------------------------------------------------------------ cart claims
\* The step is a successful write of the cart item row of product p: the
\* write of addToCart or updateCartItem, or the commit of a merge that wrote
\* the row.
CartWrite(q, p) ==
    \/ /\ procs[q].pc \in {"ac_write", "ac_item", "uc_write"}
       /\ procs'[q].pc = "ac_get"
       /\ procs[q].key = p
       /\ cart'[procs[q].user][p].qty > 0
    \/ /\ procs[q].pc = "commit" /\ procs[q].op = "mergeAnonymousCart"
       /\ procs'[q].pc = "mg_get"
       /\ procs[q].wr[p] > 0

\* C11: after every successful cart write (addToCart, updateCartItem,
\* mergeAnonymousCart), the active reservations of the product written, over
\* all carts, do not exceed the product's stock.
C11_ReservedWithinStock ==
    [][\A q \in Procs, p \in Products :
          CartWrite(q, p) => Reserved(Owners, p)' <= stock'[p]]_vars

\* A merge has committed a row of the user's cart whose running reservation
\* alone exceeds the stock of the product.
C11_Witness ==
    \E q \in Procs, p \in Products :
        /\ procs[q].op = "mergeAnonymousCart" /\ procs[q].pc = "mg_get"
        /\ procs[q].snap[p] > 0
        /\ ~cart[procs[q].user][p].expired
        /\ cart[procs[q].user][p].qty > stock[p]

\* C12: the write of addToCart on a (cart, product) pair that already has a
\* row replaces the row's quantity with the requested quantity, it does not
\* add to it: a second add of q leaves the one row with q.
C12_AddReplaces ==
    [][\A q \in Procs :
        LET me == procs[q] IN
        (/\ me.pc \in {"ac_write", "ac_item"} /\ procs'[q].pc = "ac_get"
         /\ cart[me.user][me.key].qty > 0)
        => cart'[me.user][me.key] = [qty |-> me.snap[me.key], expired |-> FALSE]]_vars

\* An addToCart of the quantity the row already held has written the row,
\* and the row holds that quantity.
C12_Witness ==
    \E q \in Procs :
        LET me == procs[q] IN
        /\ me.op = "addToCart" /\ me.pc = "ac_get"
        /\ me.had > 0 /\ me.had = me.snap[me.key]
        /\ cart[me.user][me.key].qty = me.had

\* The step by which the getCart request of q returns its response.
GetCartReturns(q) == procs[q].pc = "gc_ref" /\ procs'[q].pc = "done"

\* C13 (as stated): when getCart returns, no item of the cart whose
\* reservation had run out at the time of the call is in the response, and
\* every such row is gone from the store.
C13_ExpiredSwept ==
    [][\A q \in Procs, p \in Products :
        (GetCartReturns(q) /\ procs[q].snapExp[p])
        => /\ procs'[q].resp[p].qty = 0
           /\ cart'[procs[q].user][p].qty = 0]_vars

\* C13 (amended): the sweep of getCart deletes every row of the cart whose
\* reservation had run out at the time of the call and has not been renewed
\* since, and the response holds no such item: an item of the response that
\* had run out at the time of the call has a running reservation, given to
\* it by a cart write during the call.
C13_ExpiredSweptUnlessRenewed ==
    [][\A q \in Procs, p \in Products :
        LET me == procs[q] IN
        /\ (me.pc = "gc_exp" /\ procs'[q].pc = "gc_ref" /\ me.snapExp[p] /\ cart[me.user][p].expired)
            => cart'[me.user][p].qty = 0
        /\ (GetCartReturns(q) /\ me.snapExp[p])
            => (procs'[q].resp[p].qty = 0 \/ ~procs'[q].resp[p].expired)]_vars

\* A getCart call that found a reservation run out has returned: the item
\* is not in the response and its row is gone.
C13_Witness ==
    \E q \in Procs, p \in Products :
        /\ procs[q].op = "getCart" /\ procs[q].pc = "done"
        /\ procs[q].snapExp[p]
        /\ procs[q].resp[p].qty = 0
        /\ cart[procs[q].user][p].qty = 0

\* The step by which the merge of q commits.
MergeCommits(q) ==
    /\ procs[q].op = "mergeAnonymousCart"
    /\ procs[q].pc = "commit" /\ procs'[q].pc = "mg_get"

\* C14: a merge of a session's cart holding a units of a product into a
\* user's cart holding b units of it, when the stock not reserved by other
\* carts covers a + b, leaves the user's row with a + b and removes the
\* session's cart with its items.
C14_MergeSums ==
    [][\A q \in Procs, p \in Products :
        LET me == procs[q]
            a == me.snap[p]
            b == cart[me.user][p].qty
        IN
        (/\ MergeCommits(q)
         /\ a > 0 /\ b > 0
         /\ stock[p] - Reserved(Owners \ {me.user, me.sess}, p) >= a + b)
        => /\ cart'[me.user][p].qty = a + b
           /\ cart'[me.sess] = [x \in Products |-> NoItem]
           /\ cartRow'[me.sess] = "none"]_vars

\* A merge has committed with the session's item left out: the user's row
\* still holds b, the session's cart is gone, no other cart reserves the
\* product and its stock covers a + b.
C14_Witness ==
    \E q \in Procs, p \in Products :
        LET me == procs[q] IN
        /\ me.op = "mergeAnonymousCart" /\ me.pc = "mg_get"
        /\ me.snap[p] > 0 /\ me.had > 0 /\ me.key = 0
        /\ cart[me.user][p].qty = me.had
        /\ Reserved(Owners \ {me.user}, p) = 0
        /\ stock[p] >= me.snap[p] + me.had
        /\ cartRow[me.sess] = "none"
        /\ \A r \in Procs \ {q} : procs[r].pc \in {"idle", "done", "off"}

\* ----------------------------------------------------------- order claims
\* The step by which the transaction of handler op of q commits.
Commits(q, op) ==
    /\ procs[q].op = op /\ procs[q].pc = "commit"
    /\ procs'[q].pc = "done" /\ procs'[q].result = "ok"

ItemUpdated(q) ==
    /\ procs[q].pc = "ui_tx"
    /\ procs'[q].pc = "done" /\ procs'[q].result = "ok"

\* The step by which a request of q is rejected with error res.
Rejected(q, op, res) ==
    /\ procs[q].pc \in {"idle", "done"}
    /\ procs'[q] # procs[q]
    /\ procs'[q].op = op /\ procs'[q].pc = "done" /\ procs'[q].result = res

\* C16: updateOrderItemStatus succeeds only for the transitions
\* PENDING->CONFIRMED, PENDING->CANCELLED, CONFIRMED->SHIPPED and
\* SHIPPED->DELIVERED of the item's current status; a call for any other
\* pair is rejected and leaves the item, its sub-order and the parent order
\* as they were.
C16_OnlyValidTransitions ==
    [][\A q \in Procs :
        /\ ItemUpdated(q) =>
            <<orders[procs[q].oid].istatus[procs[q].key], procs[q].arg>> \in
                {<<"PENDING", "CONFIRMED">>, <<"PENDING", "CANCELLED">>,
                 <<"CONFIRMED", "SHIPPED">>, <<"SHIPPED", "DELIVERED">>}
        /\ Rejected(q, "updateOrderItemStatus", "InvalidTransition") => orders' = orders]_vars

\* A cancelOrder of the parent and an updateOrderItemStatus, and no other
\* request, have both succeeded, and an item of the order, which the cancel
\* had set to CANCELLED, is CONFIRMED.
C16_Witness ==
    /\ quota = MaxOrderRequests - 2
    /\ \E q, r \in {1, 2} :
        /\ procs[q].op = "updateOrderItemStatus" /\ procs[q].pc = "done"
        /\ procs[q].result = "ok"
        /\ procs[r].op = "cancelOrder" /\ procs[r].pc = "done" /\ procs[r].result = "ok"
    /\ orders[1].pay = "REFUNDED"
    /\ \E p \in ItemsOf(orders[1]) : orders[1].istatus[p] = "CONFIRMED"

\* C17: cancelOrder succeeds only when the order's status is PENDING; on a
\* parent order its commit leaves every sub-order CANCELLED and REFUNDED,
\* every item CANCELLED, the parent CANCELLED and REFUNDED, and the stock of
\* each item's product larger by the item's quantity; a call on an order in
\* another status fails and changes neither the orders nor the stock.
C17_CancelOnlyPending ==
    [][\A q \in Procs :
        LET me == procs[q]
            o == orders[me.oid]
            after == orders'[me.oid]
        IN
        /\ Commits(q, "cancelOrder") =>
            (IF me.seller = 0 THEN o.status ELSE o.sstatus[me.seller]) = "PENDING"
        /\ (Commits(q, "cancelOrder") /\ me.seller = 0) =>
            /\ after.status = "CANCELLED" /\ after.pay = "REFUNDED"
            /\ \A s \in SubsOf(o) : after.sstatus[s] = "CANCELLED" /\ after.spay[s] = "REFUNDED"
            /\ \A p \in ItemsOf(o) : after.istatus[p] = "CANCELLED"
            /\ \A p \in Products : stock'[p] = stock[p] + o.qty[p]
        /\ Rejected(q, "cancelOrder", "CannotCancel") =>
            orders' = orders /\ stock' = stock]_vars

\* Two cancelOrder calls on the same parent order, and no other request,
\* have both succeeded.
C17_Witness ==
    /\ quota = MaxOrderRequests - 2
    /\ \A q \in {1, 2} :
        procs[q].op = "cancelOrder" /\ procs[q].pc = "done" /\ procs[q].result = "ok"
    /\ orders[1].status = "CANCELLED" /\ orders[1].pay = "REFUNDED"
    /\ \E p \in ItemsOf(orders[1]) : stock[p] >= 2 * orders[1].qty[p]


\* DELIVERED and CANCELLED, the statuses the order state machine never leaves.
Terminal(st) == st \in {"DELIVERED", "CANCELLED"}

\* C18: once the status of a parent order, of a sub-order or of an order
\* item is DELIVERED or CANCELLED, no step of updateOrderItemStatus,
\* cancelOrder, cancelSubOrder, processPayment or refundPayment changes it.
C18_TerminalStatuses ==
    [][\A oid \in 1..Len(orders) :
        LET o == orders[oid]
            after == orders'[oid]
        IN
        /\ Terminal(o.status) => after.status = o.status
        /\ \A s \in Sellers : Terminal(o.sstatus[s]) => after.sstatus[s] = o.sstatus[s]
        /\ \A p \in Products : Terminal(o.istatus[p]) => after.istatus[p] = o.istatus[p]]_vars

\* A cancelOrder and a processPayment of the parent, and no other request,
\* have both succeeded, and the order, its sub-orders and its items, of which
\* the cancel had set one or all to CANCELLED, are CONFIRMED and PAID.
C18_Witness ==
    /\ quota = MaxOrderRequests - 2
    /\ \E q, r \in {1, 2} :
        /\ procs[q].op = "cancelOrder" /\ procs[q].pc = "done" /\ procs[q].result = "ok"
        /\ procs[r].op = "processPayment" /\ procs[r].pc = "done"
        /\ procs[r].result = "PAID"
    /\ orders[1].status = "CONFIRMED" /\ orders[1].pay = "PAID"
    /\ \A s \in SubsOf(orders[1]) : orders[1].sstatus[s] = "CONFIRMED"
    /\ \A p \in ItemsOf(orders[1]) : orders[1].istatus[p] = "CONFIRMED"

\* C19: the step that makes a parent order PAID leaves the parent and every
\* sub-order CONFIRMED and PAID and every item CONFIRMED, all in that one
\* step; in no state is a parent PAID while a sub-order or an item of it
\* still waits (PENDING) for the confirmation.
C19_PaidAtomically ==
    [][\A oid \in 1..Len(orders) :
        LET o == orders[oid]
            after == orders'[oid]
        IN
        /\ (o.pay # "PAID" /\ after.pay = "PAID") =>
            /\ after.status = "CONFIRMED"
            /\ \A s \in SubsOf(o) : after.sstatus[s] = "CONFIRMED" /\ after.spay[s] = "PAID"
            /\ \A p \in ItemsOf(o) : after.istatus[p] = "CONFIRMED"
        /\ after.pay = "PAID" =>
            /\ \A s \in SubsOf(o) : after.sstatus[s] # "PENDING"
            /\ \A p \in ItemsOf(o) : after.istatus[p] # "PENDING"]_vars

\* A processPayment of a PENDING parent order with two sub-orders has
\* succeeded, and no other request was made.
C19_Witness ==
    /\ quota = MaxOrderRequests - 1
    /\ \E q \in Procs :
        /\ procs[q].op = "processPayment" /\ procs[q].pc = "done"
        /\ procs[q].result = "PAID"
    /\ SubsOf(orders[1]) = Sellers
    /\ orders[1].status = "CONFIRMED" /\ orders[1].pay = "PAID"
    /\ \A s \in Sellers : orders[1].sstatus[s] = "CONFIRMED" /\ orders[1].spay[s] = "PAID"
    /\ \A p \in ItemsOf(orders[1]) : orders[1].istatus[p] = "CONFIRMED"

\* The step by which processPayment of q ends with a refused payment.
PaymentFails(q) ==
    /\ procs[q].op = "processPayment" /\ procs[q].pc = "pp_gw"
    /\ procs'[q].pc = "done" /\ procs'[q].result = "FAILED"

C21_StockWritesUnderLock ==
    [][\A p \in Products :
        /\ \A q \in Procs :
            (txDelta'[q][p] # txDelta[q][p] /\ txDelta'[q][p] # 0) =>
                procs[q].tok # NoToken /\ lockStore[p] = procs[q].tok
        /\ stock'[p] # stock[p] =>
            \E q \in Procs : procs[q].pc = "commit" /\ procs'[q].pc = "done"
                             /\ stock'[p] = stock[p] + txDelta[q][p]]_vars

\* The seller's updateStock, the only request made, has succeeded while no
\* handler holds or has asked for a lock.
C21_Witness ==
    /\ quota = MaxRequests - 1
    /\ \E q \in Procs :
        /\ procs[q].op = "updateStock" /\ procs[q].pc = "done" /\ procs[q].result = "ok"
        /\ \A r \in Procs \ {q} : procs[r].pc \in {"idle", "off"}
    /\ \A p \in Products : lockStore[p] = NoToken

\* C22: cancelSubOrder succeeds only for the seller owning the sub-order and
\* only while the sub-order is PENDING or CONFIRMED; its commit leaves the
\* sub-order CANCELLED and REFUNDED, each of its items CANCELLED and the
\* stock of each item's product larger by the item's quantity; a call that
\* fails changes neither the orders nor the stock.
C22_CancelSubOrder ==
    [][\A q \in Procs :
        LET me == procs[q]
            o == orders[me.oid]
            after == orders'[me.oid]
        IN
        /\ Commits(q, "cancelSubOrder") =>
            /\ o.sstatus[me.seller] \in {"PENDING", "CONFIRMED"}
            /\ after.sstatus[me.seller] = "CANCELLED" /\ after.spay[me.seller] = "REFUNDED"
            /\ \A p \in SubItems(o, me.seller) :
                after.istatus[p] = "CANCELLED" /\ stock'[p] = stock[p] + o.qty[p]
        /\ (\/ Rejected(q, "cancelSubOrder", "CannotCancel")
            \/ Rejected(q, "cancelSubOrder", "SubOrderNotFound")) =>
            orders' = orders /\ stock' = stock]_vars

\* Two cancelSubOrder calls, and no other request, have both succeeded on
\* the one sub-order of an order, and its stock was given back twice.
C22_Witness ==
    /\ quota = MaxOrderRequests - 2
    /\ \A q \in {1, 2} :
        procs[q].op = "cancelSubOrder" /\ procs[q].pc = "done" /\ procs[q].result = "ok"
    /\ \E s \in Sellers :
        /\ SubsOf(orders[1]) = {s}
        /\ orders[1].sstatus[s] = "CANCELLED"
        /\ \A p \in SubItems(orders[1], s) : stock[p] >= 2 * orders[1].qty[p]

\* The step by which a getCart request of q makes its first statements.
GetCartStarts(q) ==
    /\ procs[q].pc \in {"idle", "done"}
    /\ procs'[q] # procs[q]
    /\ procs'[q].op = "getCart"

C24_OneCancelSucceeds ==
    (/\ quota = 0
     /\ \A q \in Procs :
            /\ procs[q].op = "cancelOrder" /\ procs[q].pc = "done"
            /\ procs[q].result # "OrderNotFound")
    => /\ \E q \in Procs : procs[q].result = "ok"
       /\ \/ orders[1].status = "CANCELLED" /\ orders[1].pay = "REFUNDED"
          \/ \E s \in SubsOf(orders[1]) :
                orders[1].sstatus[s] = "CANCELLED" /\ orders[1].spay[s] = "REFUNDED"

\* Three cancelOrder calls of the owner have returned: one was ended as the
\* victim of a deadlock with another, one succeeded, the order is CANCELLED.
C24_Witness ==
    /\ quota = 0
    /\ \A q \in Procs : procs[q].op = "cancelOrder" /\ procs[q].pc = "done"
    /\ \E q \in Procs : procs[q].result = "TxAborted"
    /\ \E q \in Procs : procs[q].result = "ok"
    /\ orders[1].status = "CANCELLED" /\ orders[1].pay = "REFUNDED"

\* C25: addToCart and updateCartItem with a quantity n > 0 for a product
\* the cart already holds are accepted if and only if the stock less the
\* active reservations of the other carts covers n: a call is rejected for
\* insufficient stock only when it does not, and passes its check only when
\* it does.
C25_AcceptedIffFits ==
    [][\A q \in Procs :
        LET me == procs[q]
            p == me.key
            u == me.user
            n == me.snap[p]
            fits == stock[p] - Reserved(Owners \ {u}, p) >= n
        IN
        (/\ me.op \in {"addToCart", "updateCartItem"}
         /\ me.pc \in {"body", "ac_write", "ac_item"} /\ me.err = "none"
         /\ cart[u][p].qty > 0 /\ n > 0)
        => /\ procs'[q].err = "InsufficientStock" => ~fits
           /\ procs'[q].pc \in {"ac_get", "uc_write"} => fits]_vars

\* addToCart of the quantity the cart already holds, with every reservation
\* of the product within its stock, is being rejected for insufficient
\* stock.
C25_Witness ==
    \E q \in Procs :
        LET me == procs[q]
            p == me.key
        IN
        /\ me.op = "addToCart" /\ me.pc = "rel" /\ me.err = "InsufficientStock"
        /\ cart[me.user][p].qty = me.snap[p] /\ ~cart[me.user][p].expired
        /\ Reserved(Owners, p) <= stock[p]
        /\ \A r \in Procs \ {q} : procs[r].pc \in {"idle", "off"}
        /\ quota = MaxRequests - 1

\* C26: the merge takes as available for an item of the session's cart the
\* stock less the active reservations of every cart other than the session's
\* and the user's; its commit leaves the user's row with the sum of the two
\* quantities when the sum fits within that, and as it was otherwise; the
\* session's cart is gone in either case.
C26_MergeFitsOrDrops ==
    [][\A q \in Procs, p \in Products :
        LET me == procs[q]
            a == me.snap[p]
            b == cart[me.user][p].qty
            available == stock[p] - Reserved(Owners \ {me.user, me.sess}, p)
        IN
        (MergeCommits(q) /\ a > 0)
        => /\ cart'[me.user][p].qty = IF b + a <= available THEN b + a ELSE b
           /\ cartRow'[me.sess] = "none"]_vars

\* A merge, the only request, has committed: the user's cart had no row of
\* the product, no other cart reserves it and its stock covers the session's
\* quantity, and yet the user's cart has no row and the session's is gone.
C26_Witness ==
    \E q \in Procs, p \in Products :
        LET me == procs[q] IN
        /\ quota = MaxRequests - 1
        /\ me.op = "mergeAnonymousCart" /\ me.pc = "mg_get"
        /\ me.snap[p] > 0 /\ me.had = 0
        /\ cart[me.user][p].qty = 0
        /\ Reserved(Owners, p) = 0
        /\ stock[p] >= me.snap[p]
        /\ cartRow[me.sess] = "none"

\* C27: two concurrent cart operations of one owner that both find no cart
\* do not fail for it: no addToCart call ends with the error that the cart
\* already exists.
C27_CreateRaceAdopts ==
    \A q \in Procs :
        procs[q].err # "CartAlreadyExists" /\ procs[q].result # "CartAlreadyExists"

\* Two addToCart calls of the session, for the two products and within
\* their stock, have returned: one succeeded, the other failed because the
\* cart already existed, and the cart holds only one of the items.
C27_Witness ==
    /\ quota = MaxRequests - 2
    /\ \A q \in {1, 2} : procs[q].op = "addToCart" /\ procs[q].pc = "done"
    /\ \E q, r \in {1, 2} :
        /\ procs[q].user = procs[r].user
        /\ procs[q].result = "ok" /\ procs[r].result = "CartAlreadyExists"
        /\ Cardinality({p \in Products : cart[procs[q].user][p].qty > 0}) = 1

\* C28: an updateCartItem with quantity 0 on a (cart, product) whose row is
\* already gone succeeds as a no-op: the call goes on without an error and
\* the cart is unchanged.
C28_ZeroUpdateIdempotent ==
    [][\A q \in Procs :
        LET me == procs[q] IN
        (/\ me.op = "updateCartItem" /\ me.pc = "body" /\ me.snap[me.key] = 0
         /\ cartRow[me.user] # "none" /\ cart[me.user][me.key].qty = 0
         /\ procs'[q] # me)
        => procs'[q].err = "none" /\ cart' = cart]_vars

\* The owner's first quantity-0 update has returned successfully, the row
\* is gone, and the repeated quantity-0 update of the same owner has been
\* refused because the product is not in the cart.
C28_Witness ==
    \E q, r \in Procs :
        /\ q # r
        /\ procs[r].op = "updateCartItem" /\ procs[r].pc = "done"
        /\ procs[r].result = "ok" /\ procs[r].user = procs[q].user
        /\ procs[q].op = "updateCartItem" /\ procs[q].pc = "rel"
        /\ procs[q].snap[procs[q].key] = 0
        /\ procs[q].err = "ProductNotInCart"
        /\ \A p \in Products : cart[procs[q].user][p].qty = 0

\* C29: when updateOrderItemStatus(item, s) succeeds, the item, the
\* sub-order that owns it and the parent order all have status s, and no
\* payment_status and no stock has changed.
C29_ItemStatusPropagates ==
    [][\A q \in Procs :
        ItemUpdated(q) =>
            LET me == procs[q]
                o == orders'[me.oid]
            IN
            /\ o.istatus[me.key] = me.arg
            /\ o.sstatus[SellerOf(me.key)] = me.arg
            /\ o.status = me.arg
            /\ o.pay = orders[me.oid].pay /\ o.spay = orders[me.oid].spay
            /\ stock' = stock]_vars

\* A seller's updateOrderItemStatus to CONFIRMED has returned: the item,
\* its sub-order and the parent are CONFIRMED while the payment is PENDING.
C29_Witness ==
    \E q \in Procs, p \in Products :
        /\ procs[q].op = "updateOrderItemStatus" /\ procs[q].pc = "done"
        /\ procs[q].result = "ok"
        /\ orders[1].istatus[p] = "CONFIRMED"
        /\ orders[1].sstatus[SellerOf(p)] = "CONFIRMED"
        /\ orders[1].status = "CONFIRMED"
        /\ orders[1].pay = "PENDING" /\ orders[1].spay[SellerOf(p)] = "PENDING"

\* C30: in every reachable state every order item has the status of the
\* sub-order it belongs to.
C30_ItemMirrorsSubOrder ==
    \A oid \in 1..Len(orders) :
        \A p \in ItemsOf(orders[oid]) :
            orders[oid].istatus[p] = orders[oid].sstatus[SellerOf(p)]

\* A refundPayment of a paid sub-order has returned: the sub-order is
\* CANCELLED and REFUNDED while its item is still CONFIRMED.
C30_Witness ==
    \E q \in Procs, p \in ItemsOf(orders[1]) :
        /\ procs[q].op = "refundPayment" /\ procs[q].pc = "done"
        /\ procs[q].result = "ok"
        /\ orders[1].sstatus[SellerOf(p)] = "CANCELLED"
        /\ orders[1].spay[SellerOf(p)] = "REFUNDED"
        /\ orders[1].istatus[p] = "CONFIRMED"

\* C31: after every parent-level payment success, payment failure, refund
\* or cancelOrder, every sub-order of the parent has the status and the
\* payment_status of the parent.
C31_SubOrdersMirrorParent ==
    [][\A q \in Procs :
        LET me == procs[q] IN
        (/\ me.seller = 0
         /\ \/ me.pc \in {"pp_gw", "rf_upd"}
            \/ me.op = "cancelOrder" /\ me.pc = "commit"
         /\ procs'[q].pc = "done")
        => LET o == orders'[me.oid] IN
           \A s \in SubsOf(o) : o.sstatus[s] = o.status /\ o.spay[s] = o.pay]_vars

\* A payment of the parent order has been refused by the gateway: the
\* parent's payment_status is FAILED and a sub-order's is still PENDING.
C31_Witness ==
    \E q \in Procs, s \in SubsOf(orders[1]) :
        /\ procs[q].op = "processPayment" /\ procs[q].pc = "done"
        /\ procs[q].result = "FAILED"
        /\ orders[1].pay = "FAILED" /\ orders[1].spay[s] = "PENDING"
        /\ orders[1].status = "PENDING" /\ orders[1].sstatus[s] = "PENDING"

\* C32: every createOrder call terminates, with success or with a failure,
\* also when two concurrent calls visit the same products in opposite
\* orders and each waits for a stock row the other has decremented.
C32_CreateOrderTerminates ==
    \A q \in {1, 2} : (procs[q].op = "createOrder") ~> (procs[q].pc = "done")

\* The checkouts of two users wait for each other: each is inside the lock of one
\* product, at a statement on the stock row the other's open transaction
\* has decremented.
C32_Witness ==
    /\ procs[1].op = "createOrder" /\ procs[2].op = "createOrder"
    /\ procs[1].pc = "body" /\ procs[2].pc = "body"
    /\ procs[1].user # procs[2].user /\ procs[1].key # procs[2].key
    /\ Waits(1, 2) /\ Waits(2, 1)

\* C33: with or without the lock, also while two createOrder callers are in
\* the critical section of one product because the TTL of the first one's
\* lock has run out, the stock stays >= 0 and the units sold, those of open
\* transactions included, never exceed the stock that was available.
C33_SafeWithoutLock ==
    \A p \in Products :
        LET pending == SumOver(Procs, [q \in Procs |-> txDelta[q][p]]) IN
        /\ stock[p] + pending >= 0
        /\ Sold(p) - pending <= hist.stock0[p]

\* The lock of a createOrder caller ran out while it was in the body; it
\* went on to decrement the product, while a second caller, holding the
\* lock of the same product, is in the body too.
C33_Witness ==
    \E a, b \in Procs :
        /\ a # b /\ procs[a].op = "createOrder" /\ procs[b].op = "createOrder"
        /\ procs[a].key = procs[b].key
        /\ procs[a].pc = "rel" /\ procs[a].lostLock /\ procs[a].err = "none"
        /\ txDelta[a][procs[a].key] < 0
        /\ procs[b].pc \in {"body", "co_upd"} /\ ~procs[b].lostLock

\* C34: over any sequence of cancelSubOrder and cancelOrder calls on one
\* parent order, the stock of a product has taken back the quantity of the
\* order's item at most once.
C34_RestoredAtMostOnce ==
    \A p \in ItemsOf(orders[1]) : stock[p] - hist.stock0[p] <= orders[1].qty[p]

\* An order with two sub-orders, after two calls made one after the other,
\* the second a cancelOrder that succeeded: the item of one sub-order has
\* gone back to stock twice, the other item once.
C34_Witness ==
    \E p, r \in ItemsOf(orders[1]) :
        /\ procs[1].op = "cancelOrder" /\ procs[1].pc = "done" /\ procs[1].result = "ok"
        /\ quota = 0
        /\ orders[1].sstatus[SellerOf(p)] = "CANCELLED"
        /\ p # r
        /\ stock[p] = hist.stock0[p] + 2 * orders[1].qty[p]
        /\ stock[r] = hist.stock0[r] + orders[1].qty[r]
        /\ orders[1].status = "CANCELLED"

\* C35: when cancellations of one order run concurrently, the stock of an
\* item's product is incremented once in total: no cancellation commits an
\* increment for a product whose stock has already taken the item back.
C35_OneRestoreInTotal ==
    [][\A p \in ItemsOf(orders[1]) :
        stock'[p] > stock[p] => stock[p] = hist.stock0[p]]_vars

\* Two cancelOrder calls on the parent both passed the PENDING check; one
\* has committed and restored the stock, the other has incremented the
\* same product in its transaction and is about to commit.
C35_Witness ==
    \E a, b \in Procs, p \in ItemsOf(orders[1]) :
        /\ procs[a].op = "cancelOrder" /\ procs[a].pc = "done" /\ procs[a].result = "ok"
        /\ orders[1].status = "CANCELLED"
        /\ stock[p] = hist.stock0[p] + orders[1].qty[p]
        /\ procs[b].op = "cancelOrder" /\ procs[b].pc = "commit" /\ procs[b].seller = 0
        /\ txDelta[b][p] = orders[1].qty[p]

\* C36: every order item whose status is CANCELLED has had its quantity
\* restored to the stock of its product.
C36_CancelledIsRestored ==
    \A p \in ItemsOf(orders[1]) :
        orders[1].istatus[p] = "CANCELLED"
        => stock[p] - hist.stock0[p] >= orders[1].qty[p]

\* The seller's updateOrderItemStatus to CANCELLED has returned: the item,
\* its sub-order and the parent are CANCELLED and the stock is what the
\* order left.
C36_Witness ==
    \E p \in ItemsOf(orders[1]) :
        /\ procs[1].op = "updateOrderItemStatus" /\ procs[1].pc = "done"
        /\ procs[1].result = "ok"
        /\ orders[1].istatus[p] = "CANCELLED"
        /\ orders[1].sstatus[SellerOf(p)] = "CANCELLED"
        /\ orders[1].status = "CANCELLED"
        /\ stock = hist.stock0

\* C37: in every reachable state a parent order is CANCELLED only if every
\* one of its sub-orders is CANCELLED.
C37_ParentCancelledLast ==
    \A oid \in 1..Len(orders) :
        orders[oid].status = "CANCELLED"
        => \A s \in SubsOf(orders[oid]) : orders[oid].sstatus[s] = "CANCELLED"

\* A seller has moved the item of one of two sub-orders to CANCELLED by
\* updateOrderItemStatus: the parent is CANCELLED while the other
\* sub-order and its item are still PENDING.
C37_Witness ==
    \E q \in Procs, p, r \in ItemsOf(orders[1]) :
        /\ procs[q].op = "updateOrderItemStatus" /\ procs[q].pc = "done"
        /\ procs[q].result = "ok" /\ quota = MaxOrderRequests - 1
        /\ orders[1].istatus[p] = "CANCELLED"
        /\ orders[1].sstatus[SellerOf(p)] = "CANCELLED"
        /\ orders[1].status = "CANCELLED"
        /\ orders[1].sstatus[SellerOf(r)] = "PENDING" /\ orders[1].istatus[r] = "PENDING"

\* C38: cancelSubOrder never cancels or restocks an order item whose own
\* status is SHIPPED or DELIVERED: when its transaction commits, no item of
\* the sub-order has one of these statuses.
C38_NoCancelOfShipped ==
    [][\A q \in Procs :
        LET me == procs[q] IN
        (/\ me.op = "cancelSubOrder" /\ me.pc = "commit"
         /\ procs'[q].pc = "done" /\ procs'[q].result = "ok")
        => \A p \in SubItems(orders[me.oid], me.seller) :
                orders[me.oid].istatus[p] \notin {"SHIPPED", "DELIVERED"}]_vars

\* cancelSubOrder was accepted for a CONFIRMED sub-order; the seller's
\* updateOrderItemStatus has shipped its item since, and the transaction
\* of cancelSubOrder has put the item's quantity back and is about to
\* commit.
C38_Witness ==
    \E a \in Procs :
        LET me == procs[a] IN
        /\ me.op = "cancelSubOrder" /\ me.pc = "commit"
        /\ \E p \in SubItems(orders[me.oid], me.seller) :
            /\ orders[me.oid].istatus[p] = "SHIPPED"
            /\ orders[me.oid].sstatus[me.seller] = "SHIPPED"
            /\ txDelta[a][p] = orders[me.oid].qty[p]

\* C39: however processPayment interleaves with cancelOrder or
\* cancelSubOrder, no order is CONFIRMED and PAID after the stock of its
\* items has been restored: an item that is CONFIRMED in a PAID sub-order
\* has its units still taken from the stock.
C39_NoPaymentOfCancelled ==
    \A p \in ItemsOf(orders[1]) :
        (orders[1].istatus[p] = "CONFIRMED" /\ orders[1].spay[SellerOf(p)] = "PAID")
        => stock[p] = hist.stock0[p]

\* A payment of the parent was under way (payment_status PROCESSING) when
\* a cancelOrder of the parent committed: the order is CANCELLED and
\* REFUNDED, the stock of its items is restored, and the payment is
\* waiting for the gateway's answer.
C39_Witness ==
    \E q, r \in Procs :
        /\ procs[q].op = "processPayment" /\ procs[q].pc = "pp_gw" /\ procs[q].seller = 0
        /\ procs[r].op = "cancelOrder" /\ procs[r].pc = "done" /\ procs[r].result = "ok"
        /\ orders[1].status = "CANCELLED" /\ orders[1].pay = "REFUNDED"
        /\ \A p \in ItemsOf(orders[1]) :
            /\ orders[1].istatus[p] = "CANCELLED"
            /\ stock[p] = hist.stock0[p] + orders[1].qty[p]
====
